---- MODULE Spec2Model ----
(***************************************************************************)
(* A model of the culture-tracker API: the CellState store and its         *)
(* create / merge-update / delete / get handlers, the lineage query of     *)
(* crud.py and the CSV export of routers/export.py.                        *)
(*                                                                         *)
(* The store is the cellstate table.  The default engine is SQLite         *)
(* (database.py:17) and no PRAGMA foreign_keys is ever issued, so the      *)
(* self-referencing foreign key of models.py:14 is not enforced, and the   *)
(* INTEGER PRIMARY KEY id of a new row is max(id)+1.                       *)
(***************************************************************************)
EXTENDS Integers, Sequences, FiniteSets, TLC

\* ------------------------------------------------------------------------
\* Bounds of the model.
\* ------------------------------------------------------------------------
\* Largest id a create may allocate in Spec and SpecUpdate.
MaxId == 2

\* ------------------------------------------------------------------------
\* JSON values as they sit in the `parameters` column and in request bodies.
\* ------------------------------------------------------------------------
Null == [t |-> "null"]
Num(n) == [t |-> "num", v |-> n]
Str(s) == [t |-> "str", v |-> s]
Dict(f) == [t |-> "dict", v |-> f]

\* A Python dict literal with no key.
EmptyDict == [k \in {} |-> Null]

\* isinstance(x, dict)
IsDict(x) == x.t = "dict"

\* isinstance(x, (int, float))
IsNumber(x) == x.t = "num"

\* Python truthiness of a JSON value (None, 0, "" and {} are falsy).
Truthy(x) ==
  CASE x.t = "null" -> FALSE
    [] x.t = "num" -> x.v # 0
    [] x.t = "str" -> x.v # ""
    [] x.t = "dict" -> DOMAIN x.v # {}
    [] OTHER -> TRUE

\* d.get(k): the value under k, None when the key is absent.
DictGet(d, k) == IF k \in DOMAIN d THEN d[k] ELSE Null

\* new = d.copy(); new.update(u): key-wise overwrite, other keys kept.
DictUpdate(d, u) ==
  [k \in DOMAIN d \cup DOMAIN u |-> IF k \in DOMAIN u THEN u[k] ELSE d[k]]

\* parent_id = None (models.py:14, default=None); ids start at 1.
NoParent == 0

VARIABLES
  store,    \* the cellstate table: id -> row
  resp,     \* the last request and its response
  lq,       \* the running lineage query (crud.get_cell_state_lineage)
  csv,      \* the states handed to the CSV export and the rows it produced
  fn,       \* the last call of a pure function: its arguments and its result
  legacy,   \* the old schema: its tables and the migration_complete.txt marker
  patch     \* the PATCH requests in flight: what each has read and built

vars == <<store, resp, lq, csv, fn, legacy, patch>>

\* ------------------------------------------------------------------------
\* The store.
\* ------------------------------------------------------------------------
Ids == 1..MaxId

\* session.get(CellState, id) is not None
Exists(s, id) == id \in DOMAIN s

\* state.children: the rows whose parent_id is this row's id (models.py:27).
Children(s, id) == {c \in DOMAIN s : s[c].parent_id = id}

SetMax(S) == CHOOSE m \in S : \A x \in S : x <= m

\* The id SQLite gives the next inserted row: max(rowid)+1, 1 in an empty table.
NextId(s) == IF DOMAIN s = {} THEN 1 ELSE SetMax(DOMAIN s) + 1

\* The table with row `id` inserted or replaced.
Put(s, id, row) ==
  [i \in DOMAIN s \cup {id} |-> IF i = id THEN row ELSE s[i]]

\* The table without row `id`.
Remove(s, id) == [i \in DOMAIN s \ {id} |-> s[i]]

NoBody == EmptyDict
NoWrites == {}

\* The response of a request that wrote nothing.
Reply(op, id, status, body) ==
  [op |-> op, id |-> id, status |-> status, body |-> body,
   writes |-> NoWrites, committed |-> NoWrites]

\* The response of a request with the writes its handler issued on the session
\* and the writes its commits made durable.
ReplyW(op, id, status, body, writes, committed) ==
  [op |-> op, id |-> id, status |-> status, body |-> body,
   writes |-> writes, committed |-> committed]

\* ------------------------------------------------------------------------
\* calcs.calculate_measured_parameters, on numeric densities and timestamps
\* counted in whole hours.  The logarithms are kept symbolic: a growth rate is
\* the term ln(num/den)/hours, which is 0 exactly when num = den.
\* ------------------------------------------------------------------------
AllNoValue ==
  [measured_growth_rate |-> Null,
   measured_doubling_time |-> Null,
   measured_density_limit |-> Null]

\* round(math.log(end/start)/hours, 6)
GrowthRate(start_density, end_density, hours) ==
  IF end_density = start_density
    THEN Num(0)
    ELSE [t |-> "ln_rate", num |-> end_density, den |-> start_density,
          hours |-> hours]

\* round(math.log(2)/growth_rate, 2) if growth_rate > 0 else None
DoublingTime(start_density, end_density, hours) ==
  IF end_density > start_density
    THEN [t |-> "ln2_over_rate", num |-> end_density, den |-> start_density,
          hours |-> hours]
    ELSE Null

\* Twice the end density in every case.
DensityLimit_AlwaysDouble(start_density, end_density) == Num(2 * end_density)

\* round(2*end, 0) if end > 1.5*start else round(1.2*end, 0)
DensityLimit(start_density, end_density) ==
  IF 2 * end_density > 3 * start_density
    THEN Num(2 * end_density)
    ELSE Num((12 * end_density + 5) \div 10)

\* The decay case (end_density < start_density) computed like growth.
CalculateMeasuredParameters_DecayComputed(start_density, end_density, start_time, end_time) ==
  LET hours == end_time - start_time IN
  IF hours <= 0 THEN AllNoValue
  ELSE IF start_density <= 0 \/ end_density <= 0 THEN AllNoValue
  ELSE [measured_growth_rate |-> GrowthRate(start_density, end_density, hours),
        measured_doubling_time |-> DoublingTime(start_density, end_density, hours),
        measured_density_limit |-> DensityLimit(start_density, end_density)]

CalculateMeasuredParameters(start_density, end_density, start_time, end_time) ==
  LET hours == end_time - start_time IN
  IF hours <= 0 THEN AllNoValue
  ELSE IF start_density <= 0 \/ end_density <= 0 THEN AllNoValue
  ELSE IF end_density < start_density THEN AllNoValue
  ELSE [measured_growth_rate |-> GrowthRate(start_density, end_density, hours),
        measured_doubling_time |-> DoublingTime(start_density, end_density, hours),
        measured_density_limit |-> DensityLimit(start_density, end_density)]

\* key.startswith('measured_'), over the keys the model uses.
StartsWithMeasured(k) ==
  k \in {"measured_growth_rate", "measured_doubling_time",
         "measured_density_limit", "measured_value"}

\* ------------------------------------------------------------------------
\* Request bodies.
\* ------------------------------------------------------------------------
\* A CellStateCreate body.
CreateBody(name, timestamp, parent_id, parameters, transition_type, additional_notes, notes) ==
  [name |-> name, timestamp |-> timestamp, parent_id |-> parent_id,
   parameters |-> parameters, transition_type |-> transition_type,
   additional_notes |-> additional_notes, notes |-> notes]

PassageParams == [operation_type |-> Str("passage")]

\* The create bodies of Spec: a culture start and a passage, under any parent_id.
CreateBodies ==
  UNION {
    { CreateBody("root", 1, p, [cell_density |-> Num(2)],
                 Str("seeding"), Str("n0"), Null),
      CreateBody("child", 3, p,
                 [cell_density |-> Num(4),
                  transition_parameters |-> Dict(PassageParams)],
                 Null, Null, Str("x")) }
    : p \in {NoParent} \cup Ids }

\* The PATCH bodies of Spec (update_data after exclude_unset).
SpecPatchBodies ==
  { EmptyDict,
    [parameters |-> Dict([a |-> Str("9")])] }

\* ------------------------------------------------------------------------
\* Handlers.
\* ------------------------------------------------------------------------
\* main.get_state: the row, or 404.
GetStateResult(s, id) ==
  IF Exists(s, id)
    THEN [status |-> "200", body |-> s[id]]
    ELSE [status |-> "404", body |-> NoBody]

GetState(id) ==
  /\ resp' = Reply("get_state", id, GetStateResult(store, id).status,
                   GetStateResult(store, id).body)
  /\ UNCHANGED <<store, lq, csv, fn, legacy, patch>>

\* main.create_state: the row built from the body; `notes` is not copied.
CreateStateRow(body) ==
  [name |-> body.name, timestamp |-> body.timestamp,
   parent_id |-> body.parent_id, parameters |-> body.parameters,
   transition_type |-> body.transition_type,
   additional_notes |-> body.additional_notes, notes |-> Null]

CreateState(body) ==
  LET id == NextId(store) IN
  /\ id <= MaxId
  /\ store' = Put(store, id, CreateStateRow(body))
  /\ resp' = ReplyW("create_state", id, "200", body,
                    {<<"insert", id>>}, {<<"insert", id>>})
  /\ UNCHANGED <<lq, csv, fn, legacy, patch>>

\* routers/cell_states.create_cell_state line 42: CellState(**model_dump()).
CreateCellStateRow(body) ==
  [name |-> body.name, timestamp |-> body.timestamp,
   parent_id |-> body.parent_id, parameters |-> body.parameters,
   transition_type |-> body.transition_type,
   additional_notes |-> body.additional_notes, notes |-> body.notes]

\* Lines 48-51: the new state has a parent and is not a measurement.
\* transition_parameters must answer .get(): a truthy non-dict raises.
WantsParentUpdate(row) ==
  /\ row.parent_id # NoParent
  /\ DOMAIN row.parameters # {}
  /\ Truthy(DictGet(row.parameters, "transition_parameters"))
  /\ IsDict(row.parameters["transition_parameters"])
  /\ DictGet(row.parameters["transition_parameters"].v, "operation_type")
       # Str("measurement")

RaisesOnTransitionParameters(row) ==
  /\ row.parent_id # NoParent
  /\ DOMAIN row.parameters # {}
  /\ Truthy(DictGet(row.parameters, "transition_parameters"))
  /\ ~IsDict(row.parameters["transition_parameters"])

\* Lines 58-63: both densities are numbers > 0.
DensitiesUsable(parent_row, row) ==
  LET parent_density == DictGet(parent_row.parameters, "cell_density")
      child_density == DictGet(row.parameters, "cell_density")
  IN /\ parent_density # Null /\ child_density # Null
     /\ IsNumber(parent_density) /\ IsNumber(child_density)
     /\ parent_density.v > 0 /\ child_density.v > 0

\* Line 66: the parent carries no measured_* key yet.
HasMeasured(parent_row) ==
  \E k \in DOMAIN parent_row.parameters : StartsWithMeasured(k)

\* A commit that stores the measured values as the row's whole parameters.
CommitInPlaceUpdate_Replacing(s, id, measured_params) ==
  Put(s, id, [s[id] EXCEPT !.parameters = measured_params])

\* Lines 77-79: parent_state.parameters.update(measured_params) changes the
\* loaded dict in place; `parameters` is a plain Column(JSON) (models.py:15),
\* whose in-place changes the session does not track, so the commit that
\* follows flushes no UPDATE and the stored row stays as it was.
CommitInPlaceUpdate(s, id, measured_params) == s

\* The route without the test of line 66 and with a commit that stores the
\* merged parameters of the parent.
CreateCellState_Overwriting(body) ==
  LET id == NextId(store)
      row == CreateCellStateRow(body)
      s1 == Put(store, id, row)
      parent_id == row.parent_id
      reaches == /\ WantsParentUpdate(row)
                 /\ Exists(s1, parent_id)
                 /\ DensitiesUsable(s1[parent_id], row)
      measured == CalculateMeasuredParameters(
                    s1[parent_id].parameters["cell_density"].v,
                    row.parameters["cell_density"].v,
                    s1[parent_id].timestamp, row.timestamp)
  IN
  /\ id <= MaxId
  /\ ~RaisesOnTransitionParameters(row)
  /\ store' = IF reaches
                THEN Put(s1, parent_id,
                         [s1[parent_id] EXCEPT
                            !.parameters = DictUpdate(@, measured)])
                ELSE s1
  /\ resp' = ReplyW("create_cell_state", id, "201", body,
                    {<<"insert", id>>}, {<<"insert", id>>})
  /\ UNCHANGED <<lq, csv, fn, legacy, patch>>

CreateCellState(body) ==
  LET id == NextId(store)
      row == CreateCellStateRow(body)
      s1 == Put(store, id, row)
      parent_id == row.parent_id
      reaches == /\ WantsParentUpdate(row)
                 /\ Exists(s1, parent_id)
                 /\ DensitiesUsable(s1[parent_id], row)
                 /\ ~HasMeasured(s1[parent_id])
      measured == CalculateMeasuredParameters(
                    s1[parent_id].parameters["cell_density"].v,
                    row.parameters["cell_density"].v,
                    s1[parent_id].timestamp, row.timestamp)
  IN
  /\ id <= MaxId
  /\ IF RaisesOnTransitionParameters(row)
       THEN /\ store' = s1
            /\ resp' = ReplyW("create_cell_state", id, "500", body,
                              {<<"insert", id>>}, {<<"insert", id>>})
       ELSE IF reaches
         THEN /\ store' = CommitInPlaceUpdate(s1, parent_id, measured)
              /\ resp' = ReplyW("create_cell_state", id, "201", body,
                                {<<"insert", id>>, <<"update", parent_id>>},
                                {<<"insert", id>>} \cup
                                  IF store'[parent_id] # s1[parent_id]
                                    THEN {<<"update", parent_id>>} ELSE {})
         ELSE /\ store' = s1
              /\ resp' = ReplyW("create_cell_state", id, "201", body,
                                {<<"insert", id>>}, {<<"insert", id>>})
  /\ UNCHANGED <<lq, csv, fn, legacy, patch>>

\* The parameters replaced wholesale by the incoming mapping.
MergedParameters_Replaced(row, incoming_params) == incoming_params

\* main.update_state lines 184-202: merge the incoming parameters.
MergedParameters(row, incoming_params) ==
  DictUpdate(row.parameters, incoming_params)

\* The update writing additional_notes whether the body carries it or not.
UpdatedRow_NotesReset(row, update_data) ==
  LET r1 == IF "parameters" \in DOMAIN update_data
              THEN [row EXCEPT !.parameters =
                      MergedParameters(row, update_data["parameters"].v)]
              ELSE row
  IN [r1 EXCEPT !.additional_notes = DictGet(update_data, "additional_notes")]

\* main.update_state: the row after applying update_data.
UpdatedRow(row, update_data) ==
  LET r1 == IF "parameters" \in DOMAIN update_data
              THEN [row EXCEPT !.parameters =
                      MergedParameters(row, update_data["parameters"].v)]
              ELSE row
  IN IF "additional_notes" \in DOMAIN update_data
       THEN [r1 EXCEPT !.additional_notes = update_data["additional_notes"]]
       ELSE r1

\* update_state without its "No update data provided" check.
UpdateStatus_EmptyAccepted(s, id, update_data) ==
  IF ~Exists(s, id) THEN "404"
  ELSE IF "parameters" \in DOMAIN update_data
          /\ ~IsDict(update_data["parameters"]) THEN "400"
  ELSE "200"

\* main.update_state: 404, 400 or 200.
UpdateStatus(s, id, update_data) ==
  IF ~Exists(s, id) THEN "404"
  ELSE IF "parameters" \in DOMAIN update_data
          /\ ~IsDict(update_data["parameters"]) THEN "400"
  ELSE IF DOMAIN update_data = {} THEN "400"
  ELSE "200"

UpdateState(id, update_data) ==
  LET status == UpdateStatus(store, id, update_data) IN
  /\ IF status = "200"
       THEN /\ store' = Put(store, id, UpdatedRow(store[id], update_data))
            /\ resp' = ReplyW("update_state", id, status, update_data,
                              {<<"update", id>>}, {<<"update", id>>})
       ELSE /\ store' = store
            /\ resp' = Reply("update_state", id, status, update_data)
  /\ UNCHANGED <<lq, csv, fn, legacy, patch>>

\* A delete that commits nothing.
DeleteRow_Kept(s, id) == s

\* What deleting row `id` leaves: the row is gone and its children are
\* orphaned (crud.py:138-139; the ORM does the same for session.delete on a
\* parent whose `children` relationship has no delete cascade, models.py:27).
DeleteRow(s, id) ==
  [i \in DOMAIN s \ {id} |->
     IF s[i].parent_id = id THEN [s[i] EXCEPT !.parent_id = NoParent]
     ELSE s[i]]

DeleteWrites(s, id) ==
  {<<"delete", id>>} \cup {<<"update", c>> : c \in Children(s, id) \ {id}}

\* routers/cell_states.delete_cell_state: 404, or delete and 204.
RouteDeleteCellState(id) ==
  /\ IF ~Exists(store, id)
       THEN /\ store' = store
            /\ resp' = Reply("route_delete", id, "404", NoBody)
       ELSE /\ store' = DeleteRow(store, id)
            /\ resp' = ReplyW("route_delete", id, "204", NoBody,
                              DeleteWrites(store, id), DeleteWrites(store, id))
  /\ UNCHANGED <<lq, csv, fn, legacy, patch>>

\* crud.delete_cell_state: False, or orphan the children, delete and True.
CrudDeleteCellState(id) ==
  /\ IF ~Exists(store, id)
       THEN /\ store' = store
            /\ resp' = Reply("crud_delete", id, "False", NoBody)
       ELSE /\ store' = DeleteRow(store, id)
            /\ resp' = ReplyW("crud_delete", id, "True", NoBody,
                              DeleteWrites(store, id), DeleteWrites(store, id))
  /\ UNCHANGED <<lq, csv, fn, legacy, patch>>

\* ------------------------------------------------------------------------
\* Spec: the store under any sequence of requests.
\* ------------------------------------------------------------------------
NoQuery == [phase |-> "idle"]
NoCsv == [phase |-> "idle"]
NoCall == [name |-> "none"]
\* A database without old tables whose migration is marked complete.
NoLegacy == [marker |-> TRUE, tables |-> {}, passage |-> <<>>]
\* The concurrent PATCH requests of SpecPatchRace.
Requests == {1, 2}
NoPatch == [r \in Requests |-> [phase |-> "idle"]]

Init ==
  /\ store = [i \in {} |-> Null]
  /\ resp = Reply("none", 0, "none", NoBody)
  /\ lq = NoQuery
  /\ csv = NoCsv
  /\ fn = NoCall
  /\ legacy = NoLegacy
  /\ patch = NoPatch

\* Ids a request may name: those the store can hold and one it never holds.
RequestIds == 1..(MaxId + 1)

Next ==
  \/ \E body \in CreateBodies : CreateState(body)
  \/ \E body \in CreateBodies : CreateCellState(body)
  \/ \E id \in RequestIds, body \in SpecPatchBodies : UpdateState(id, body)
  \/ \E id \in RequestIds : GetState(id)
  \/ \E id \in RequestIds : RouteDeleteCellState(id)
  \/ \E id \in RequestIds : CrudDeleteCellState(id)

Spec == Init /\ [][Next]_vars

\* ------------------------------------------------------------------------
\* Properties of the store (checked under Spec).
\* ------------------------------------------------------------------------
IsDeleteReply(r) == r.op \in {"route_delete", "crud_delete"}
DeleteSucceeded(r) == IsDeleteReply(r) /\ r.status \in {"204", "True"}
IsCreateReply(r) == r.op \in {"create_state", "create_cell_state"}

\* C1: deleting a node that has a child (another node whose parent_id names it)
\* is rejected with 409 and leaves the store unchanged; deleting a childless
\* existing node succeeds and removes exactly that node.
C1_DeleteWithChildrenRejected ==
  [][ (IsDeleteReply(resp') /\ Exists(store, resp'.id)) =>
        IF Children(store, resp'.id) \ {resp'.id} # {}
          THEN resp'.status = "409" /\ store' = store
          ELSE Children(store, resp'.id) = {} =>
                 (DeleteSucceeded(resp') /\ store' = Remove(store, resp'.id)) ]_vars

\* C2: every non-null parent_id is the id of a node that is in the store.
C2_NoDanglingParent ==
  \A n \in DOMAIN store :
    store[n].parent_id # NoParent => store[n].parent_id \in DOMAIN store

\* The nodes reached from n by following parent_id one or more times, through
\* at most `fuel` links.
RECURSIVE UpFrom(_, _, _)
UpFrom(s, n, fuel) ==
  IF fuel = 0 \/ ~Exists(s, n) \/ s[n].parent_id = NoParent
    THEN {}
    ELSE {s[n].parent_id} \cup UpFrom(s, s[n].parent_id, fuel - 1)

\* C3: the parent_id graph is acyclic: following parent_id from a node never
\* returns to that node.
C3_Acyclic ==
  \A n \in DOMAIN store : n \notin UpFrom(store, n, Cardinality(DOMAIN store))

\* The fields a create supplies and a GET returns.
SuppliedFields(r) ==
  [name |-> r.name, parameters |-> r.parameters, parent_id |-> r.parent_id,
   transition_type |-> r.transition_type,
   additional_notes |-> r.additional_notes]

\* C7: a create gives the new node an id no other node has, a GET of that id
\* returns the supplied name, parameters, parent_id, transition_type and
\* additional_notes, and it keeps returning them until the node itself is
\* updated (PATCH) or deleted.
C7_CreateThenGet ==
  [][ /\ (IsCreateReply(resp') /\ resp'.status \in {"200", "201"}) =>
          /\ resp'.id \notin DOMAIN store
          /\ GetStateResult(store', resp'.id).status = "200"
          /\ SuppliedFields(GetStateResult(store', resp'.id).body)
               = SuppliedFields(resp'.body)
      /\ \A n \in DOMAIN store :
           (~(resp'.id = n /\ resp'.op = "update_state")
            /\ ~(resp'.id = n /\ IsDeleteReply(resp'))) =>
             /\ GetStateResult(store', n).status = "200"
             /\ SuppliedFields(GetStateResult(store', n).body)
                  = SuppliedFields(store[n]) ]_vars

\* C8: after a successful DELETE of an id, a GET of that id is a 404; a DELETE
\* of an id that is not in the store is a not-found (404 from the route, False
\* from crud), writes and commits nothing and leaves the store unchanged.
C8_DeleteThenGet ==
  [][ IsDeleteReply(resp') =>
        IF Exists(store, resp'.id)
          THEN /\ DeleteSucceeded(resp')
               /\ GetStateResult(store', resp'.id).status = "404"
          ELSE /\ resp'.status = (IF resp'.op = "route_delete"
                                    THEN "404" ELSE "False")
               /\ resp'.writes = {} /\ resp'.committed = {}
               /\ store' = store ]_vars

\* A node was deleted by the last request, other nodes remain, and a GET of
\* the deleted id is a 404.
C8_Witness ==
  /\ DeleteSucceeded(resp)
  /\ DOMAIN store # {}
  /\ GetStateResult(store, resp.id).status = "404"

\* C9: the writes of a request reach the store as one unit: all of them, or
\* none (stated for the requests that do not name the new node as its own
\* parent).
C9_WritesAreOneUnit ==
  (IsCreateReply(resp) => resp.body.parent_id # resp.id) =>
    (resp.committed = resp.writes \/ resp.committed = {})

\* ------------------------------------------------------------------------
\* SpecUpdate: roots and a child under merge-updates of every shape.
\* ------------------------------------------------------------------------
UpdateCreateBodies ==
  { CreateBody("spec", 1, NoParent, [a |-> Num(1), b |-> Num(2)],
               Str("seeding"), Str("n0"), Null),
    CreateBody("bare", 2, NoParent, EmptyDict, Null, Null, Null),
    CreateBody("child", 3, 1, [a |-> Num(1)], Str("passage"), Str("n0"), Null) }

\* update_data of a PATCH: any subset of {parameters, additional_notes}, with a
\* mapping, a null or a string under `parameters`.
PatchBodies ==
  { [parameters |-> Dict([b |-> Num(3), c |-> Num(4)])],
    [parameters |-> Dict([a |-> Num(5)]), additional_notes |-> Str("n1")],
    [additional_notes |-> Null],
    EmptyDict,
    [parameters |-> Null],
    [parameters |-> Str("x"), additional_notes |-> Str("n1")],
    [parameters |-> Dict(EmptyDict)] }

NextUpdate ==
  \/ \E body \in UpdateCreateBodies : CreateState(body)
  \/ \E id \in RequestIds, body \in PatchBodies : UpdateState(id, body)
  \/ \E id \in RequestIds : GetState(id)

SpecUpdate == Init /\ [][NextUpdate]_vars

\* C4: a successful PATCH with parameters U on a node with parameters P stores
\* P overridden key-wise by U: every key of U has U's value, every other key
\* of P keeps P's value, and no other key appears.
C4_ParametersMerged ==
  [][ (/\ resp'.op = "update_state" /\ resp'.status = "200"
       /\ "parameters" \in DOMAIN resp'.body) =>
        LET P == store[resp'.id].parameters
            U == resp'.body["parameters"].v
            R == store'[resp'.id].parameters
        IN /\ DOMAIN R = DOMAIN P \cup DOMAIN U
           /\ \A k \in DOMAIN U : R[k] = U[k]
           /\ \A k \in DOMAIN P \ DOMAIN U : R[k] = P[k] ]_vars

\* {a:1, b:2} patched with {b:3, c:4} is stored as {a:1, b:3, c:4}.
C4_Witness ==
  /\ resp.op = "update_state" /\ resp.status = "200"
  /\ resp.body = [parameters |-> Dict([b |-> Num(3), c |-> Num(4)])]
  /\ store[resp.id].parameters = [a |-> Num(1), b |-> Num(3), c |-> Num(4)]

\* update_data is empty, or carries a `parameters` that is not a mapping.
InvalidPatch(update_data) ==
  \/ DOMAIN update_data = {}
  \/ "parameters" \in DOMAIN update_data /\ ~IsDict(update_data["parameters"])

\* C5: PATCH on an id that is not in the store is a 404 whatever the body;
\* PATCH on an existing id with an empty body or a non-mapping `parameters` is
\* a 400; in each of these outcomes every node is unchanged.
C5_PatchErrors ==
  [][ resp'.op = "update_state" =>
        /\ ~Exists(store, resp'.id) => resp'.status = "404"
        /\ (Exists(store, resp'.id) /\ InvalidPatch(resp'.body)) =>
             resp'.status = "400"
        /\ resp'.status \in {"404", "400"} => store' = store ]_vars

\* A PATCH that carried notes beside a non-mapping `parameters` was refused on
\* an existing node, whose notes are not the ones it carried.
C5_Witness ==
  /\ resp.op = "update_state" /\ resp.status = "400"
  /\ Exists(store, resp.id)
  /\ "additional_notes" \in DOMAIN resp.body
  /\ store[resp.id].additional_notes # resp.body["additional_notes"]

\* ------------------------------------------------------------------------
\* SpecLineage: crud.get_cell_state_lineage, one loop iteration or one
\* recursive call per step, over every store of up to MaxNodes nodes (creates
\* accept any parent_id, so every parent map is a store the program can hold).
\* ------------------------------------------------------------------------
MaxNodes == 5

\* The ancestors walk has no visited set: on a parent cycle it appends without
\* end.  The model follows it until the result holds MaxResult entries.
MaxResult == 6

LineageIds == 1..MaxNodes

LineageRow(parent_id) ==
  CreateStateRow(CreateBody("n", 1, parent_id, EmptyDict, Null, Null, Null))

LineageStores ==
  UNION { { [i \in D |-> LineageRow(f[i])] :
              f \in [D -> {NoParent} \cup LineageIds] } :
          D \in SUBSET LineageIds }

Directions == {"ancestors", "descendants", "both"}

\* The call frame of get_descendants(s): the children the for loop has still
\* to take.
DescendantFrame_Leaf(s, node) == [node |-> node, todo |-> {}]

DescendantFrame(s, node) == [node |-> node, todo |-> Children(s, node)]

Query(phase, state_id, direction, current, result, stack) ==
  [phase |-> phase, state_id |-> state_id, direction |-> direction,
   current |-> current, result |-> result, stack |-> stack]

\* Lines 62-68: look the state up; [] if absent; enter the first branch.
LineageCall(state_id, direction) ==
  /\ lq.phase \in {"idle", "done"}
  /\ lq' = IF ~Exists(store, state_id)
             THEN Query("done", state_id, direction, state_id, <<>>, <<>>)
           ELSE IF direction \in {"ancestors", "both"}
             THEN Query("ancestors", state_id, direction, state_id, <<>>, <<>>)
           ELSE IF direction \in {"descendants", "both"}
             THEN Query("descendants", state_id, direction, state_id, <<>>,
                        <<DescendantFrame(store, state_id)>>)
           ELSE Query("done", state_id, direction, state_id, <<>>, <<>>)
  /\ UNCHANGED <<store, resp, csv, fn, legacy, patch>>

\* Where the query goes when the ancestors loop is left (lines 76-85).
AfterAncestors(q) ==
  IF q.direction \in {"descendants", "both"}
    THEN [q EXCEPT !.phase = "descendants",
                   !.stack = <<DescendantFrame(store, q.state_id)>>]
    ELSE [q EXCEPT !.phase = "done"]

\* The loop body appending the missing parent's id before it leaves the loop.
AncestorsStep_MissingAppended ==
  /\ lq.phase = "ancestors"
  /\ Len(lq.result) < MaxResult
  /\ LET parent_id == store[lq.current].parent_id IN
     lq' = IF parent_id = NoParent
             THEN AfterAncestors(lq)
           ELSE IF Exists(store, parent_id)
             THEN [lq EXCEPT !.current = parent_id,
                             !.result = Append(@, parent_id)]
           ELSE AfterAncestors([lq EXCEPT !.result = Append(@, parent_id)])
  /\ UNCHANGED <<store, resp, csv, fn, legacy, patch>>

\* The loop body putting each ancestor in front of the ones found before.
AncestorsStep_Prepend ==
  /\ lq.phase = "ancestors"
  /\ Len(lq.result) < MaxResult
  /\ LET parent_id == store[lq.current].parent_id IN
     lq' = IF parent_id = NoParent
             THEN AfterAncestors(lq)
           ELSE IF Exists(store, parent_id)
             THEN [lq EXCEPT !.current = parent_id,
                             !.result = <<parent_id>> \o @]
           ELSE AfterAncestors(lq)
  /\ UNCHANGED <<store, resp, csv, fn, legacy, patch>>

\* Lines 69-74: one test of `while current.parent_id` and one loop body.
AncestorsStep ==
  /\ lq.phase = "ancestors"
  /\ Len(lq.result) < MaxResult
  /\ LET parent_id == store[lq.current].parent_id IN
     lq' = IF parent_id = NoParent
             THEN AfterAncestors(lq)
           ELSE IF Exists(store, parent_id)
             THEN [lq EXCEPT !.current = parent_id,
                             !.result = Append(@, parent_id)]
           ELSE AfterAncestors(lq)
  /\ UNCHANGED <<store, resp, csv, fn, legacy, patch>>

\* Lines 79-83: one iteration of `for child in s.children` in the innermost
\* call (the relationship has no order_by: any remaining child comes next), or
\* the return of that call when its loop is exhausted.
DescendantsStep ==
  /\ lq.phase = "descendants"
  /\ Len(lq.result) < MaxResult
  /\ LET depth == Len(lq.stack)
         top == lq.stack[depth]
     IN IF top.todo = {}
          THEN lq' = IF depth = 1
                       THEN [lq EXCEPT !.phase = "done", !.stack = <<>>]
                       ELSE [lq EXCEPT !.stack = SubSeq(@, 1, depth - 1)]
          ELSE \E child \in top.todo :
                 lq' = [lq EXCEPT
                          !.result = Append(@, child),
                          !.stack = Append(
                            [@ EXCEPT ![depth].todo = top.todo \ {child}],
                            DescendantFrame(store, child))]
  /\ UNCHANGED <<store, resp, csv, fn, legacy, patch>>

InitLineage ==
  /\ store \in LineageStores
  /\ resp = Reply("none", 0, "none", NoBody)
  /\ lq = NoQuery
  /\ csv = NoCsv
  /\ fn = NoCall
  /\ legacy = NoLegacy
  /\ patch = NoPatch

NextLineage ==
  \/ \E state_id \in LineageIds, direction \in Directions :
       LineageCall(state_id, direction)
  \/ AncestorsStep
  \/ DescendantsStep

SpecLineage == InitLineage /\ [][NextLineage]_vars

\* A lineage forest: every parent_id is null or names a stored node, and no
\* node is its own ancestor.
IsForest(s) ==
  /\ \A n \in DOMAIN s : s[n].parent_id # NoParent => s[n].parent_id \in DOMAIN s
  /\ \A n \in DOMAIN s : n \notin UpFrom(s, n, Cardinality(DOMAIN s))

ProperAncestors(s, n) == UpFrom(s, n, Cardinality(DOMAIN s))
ProperDescendants(s, n) == {d \in DOMAIN s : n \in ProperAncestors(s, d)}

ResultSet(q) == {q.result[i] : i \in 1..Len(q.result)}

ExpectedLineage(s, n, direction) ==
  (IF direction \in {"ancestors", "both"} THEN ProperAncestors(s, n) ELSE {})
  \cup
  (IF direction \in {"descendants", "both"} THEN ProperDescendants(s, n) ELSE {})

\* C6: on a lineage forest, a finished query on a stored node n holds exactly
\* the proper ancestors of n ("ancestors"), exactly its proper descendants
\* ("descendants"), or exactly their union ("both"); never n itself, never a
\* node of another branch, and no node twice.
C6_LineageExact ==
  (lq.phase = "done" /\ IsForest(store) /\ Exists(store, lq.state_id)) =>
    /\ ResultSet(lq) = ExpectedLineage(store, lq.state_id, lq.direction)
    /\ lq.state_id \notin ResultSet(lq)
    /\ Cardinality(ResultSet(lq)) = Len(lq.result)

\* root -> A -> B -> C with a second child of A beside B: the finished query
\* (B, "both") holds the two ancestors and the descendant, and not the sibling.
C6_Witness ==
  /\ lq.phase = "done" /\ lq.direction = "both"
  /\ IsForest(store) /\ Exists(store, lq.state_id)
  /\ Cardinality(ProperAncestors(store, lq.state_id)) = 2
  /\ ProperDescendants(store, lq.state_id) # {}
  /\ \E c \in DOMAIN store \ {lq.state_id} :
       /\ store[c].parent_id = store[lq.state_id].parent_id
       /\ c \notin ResultSet(lq)
  /\ Len(lq.result) = 3

\* ------------------------------------------------------------------------
\* utils/parameters.py: which parameter applies to which operation type.
\* ------------------------------------------------------------------------
OPERATION_PARAMETER_MAPPING ==
  [start_new_culture |->
      {"temperature_c", "volume_ml", "location", "cell_density",
       "start_viability", "growth_rate", "doubling_time",
       "density_limit", "measured_doubling_time", "cell_type",
       "operation_type"},
   passage |->
      {"temperature_c", "volume_ml", "location", "cell_density",
       "start_viability", "parent_end_viability", "growth_rate",
       "doubling_time", "density_limit", "measured_doubling_time",
       "parent_end_density", "cell_type", "example_parameter",
       "operation_type"},
   freeze |->
      {"temperature_c", "volume_ml", "location", "cell_density",
       "parent_end_viability", "growth_rate", "doubling_time",
       "density_limit", "measured_doubling_time", "parent_end_density",
       "number_of_vials", "total_cells", "cell_type", "operation_type"},
   thaw |->
      {"temperature_c", "volume_ml", "location", "cell_density",
       "start_viability", "growth_rate", "doubling_time",
       "density_limit", "measured_doubling_time", "number_of_passages",
       "cell_type", "operation_type"},
   measurement |->
      {"temperature_c", "volume_ml", "location", "cell_density",
       "growth_rate", "doubling_time", "density_limit",
       "measured_doubling_time", "measured_value", "cell_type",
       "operation_type"},
   split |->
      {"temperature_c", "volume_ml", "location", "cell_density",
       "parent_end_viability", "growth_rate", "doubling_time",
       "density_limit", "measured_doubling_time", "parent_end_density",
       "cell_type", "operation_type"},
   harvest |->
      {"temperature_c", "volume_ml", "location", "parent_end_viability",
       "growth_rate", "doubling_time", "density_limit",
       "measured_doubling_time", "end_density", "cell_type",
       "example_parameter", "operation_type"} ]

ALL_PARAMETER_METADATA ==
  [example_parameter |->
      [displayName |-> "Example Parameter",
       applicableToAllNodes |-> FALSE,
       operationSpecific |-> <<"passage", "harvest">>],
   temperature_c |->
      [displayName |-> "Temperature (°C)",
       applicableToAllNodes |-> TRUE],
   volume_ml |->
      [displayName |-> "Volume (ml)",
       applicableToAllNodes |-> TRUE],
   location |->
      [displayName |-> "Location",
       applicableToAllNodes |-> TRUE],
   cell_density |->
      [displayName |-> "Initial Cell Density",
       applicableToAllNodes |-> TRUE],
   start_viability |->
      [displayName |-> "Start Viability (%)",
       applicableToAllNodes |-> FALSE,
       operationSpecific |-> <<"start_new_culture", "passage", "thaw">>],
   parent_end_viability |->
      [displayName |-> "Parent End Viability (%)",
       applicableToAllNodes |-> FALSE,
       operationSpecific |-> <<"passage", "harvest", "freeze", "split">>],
   growth_rate |->
      [displayName |-> "Hypothesized Growth Rate",
       applicableToAllNodes |-> TRUE],
   doubling_time |->
      [displayName |-> "Hypothesized Doubling Time",
       applicableToAllNodes |-> TRUE],
   density_limit |->
      [displayName |-> "Hypothesized Density Limit",
       applicableToAllNodes |-> TRUE],
   measured_doubling_time |->
      [displayName |-> "Measured Doubling Time",
       applicableToAllNodes |-> TRUE],
   cell_type |->
      [displayName |-> "Cell Type",
       applicableToAllNodes |-> TRUE,
       operationSpecific |-> <<"start_new_culture">>],
   parent_end_density |->
      [displayName |-> "Parent End Density",
       applicableToAllNodes |-> FALSE,
       operationSpecific |-> <<"passage", "freeze", "split">>],
   number_of_vials |->
      [displayName |-> "Number of Vials",
       applicableToAllNodes |-> FALSE,
       operationSpecific |-> <<"freeze">>],
   total_cells |->
      [displayName |-> "Total Cells",
       applicableToAllNodes |-> FALSE,
       operationSpecific |-> <<"freeze">>],
   number_of_passages |->
      [displayName |-> "Number of Passages",
       applicableToAllNodes |-> FALSE,
       operationSpecific |-> <<"thaw">>],
   end_density |->
      [displayName |-> "End Density",
       applicableToAllNodes |-> FALSE,
       operationSpecific |-> <<"harvest">>],
   measured_value |->
      [displayName |-> "Measured Value",
       applicableToAllNodes |-> FALSE,
       operationSpecific |-> <<"measurement">>],
   operation_type |->
      [displayName |-> "Operation Type",
       applicableToAllNodes |-> TRUE] ]

ALL_POSSIBLE_PARAMETERS == DOMAIN ALL_PARAMETER_METADATA

\* ALL_PARAMETER_METADATA.get(param_key, {}).get("applicableToAllNodes", False)
ApplicableToAllNodes(param_key) ==
  IF param_key \in DOMAIN ALL_PARAMETER_METADATA
    THEN ALL_PARAMETER_METADATA[param_key].applicableToAllNodes
    ELSE FALSE

\* OPERATION_PARAMETER_MAPPING.get(operation_type, [])
ApplicableParams(operation_type) ==
  IF operation_type.t = "str" /\ operation_type.v \in DOMAIN OPERATION_PARAMETER_MAPPING
    THEN OPERATION_PARAMETER_MAPPING[operation_type.v]
    ELSE {}

\* A key flagged applicableToAllNodes applies under every operation type.
is_parameter_applicable_GlobalWins(param_key, operation_type) ==
  \/ ApplicableToAllNodes(param_key)
  \/ Truthy(operation_type) /\ param_key \in ApplicableParams(operation_type)

is_parameter_applicable(param_key, operation_type) ==
  IF ~Truthy(operation_type)
    THEN ApplicableToAllNodes(param_key)
    ELSE param_key \in ApplicableParams(operation_type)

\* ------------------------------------------------------------------------
\* routers/export.py.  A CSV row is the list of its cells, as csv.writer takes
\* it and csv.reader gives it back.
\* ------------------------------------------------------------------------
\* datetime.isoformat() of a timestamp counted in whole hours of one day.
IsoFormat(timestamp) ==
  "2024-01-01T" \o (IF timestamp < 10 THEN "0" ELSE "") \o ToString(timestamp)
    \o ":00:00"

\* A JSON scalar inside json.dumps.
JsonScalar(x) ==
  IF x.t = "num" THEN ToString(x.v)
  ELSE IF x.t = "str" THEN "\"" \o x.v \o "\""
  ELSE "null"

\* json.dumps of a mapping (the mappings of the model hold at most one key, so
\* the insertion order plays no part).
JsonDumps(d) ==
  IF DOMAIN d = {} THEN "{}"
  ELSE LET k == CHOOSE k \in DOMAIN d : TRUE
       IN "{\"" \o k \o "\": " \o JsonScalar(d[k]) \o "}"

DateTime(timestamp) == [t |-> "datetime", v |-> timestamp]

\* No param_key given to format_value.
NoKey == ""

\* format_value, lines 58-85.
format_value(value, param_key, operation_type) ==
  IF /\ param_key # NoKey /\ operation_type # Null
     /\ ~is_parameter_applicable(param_key, operation_type)
    THEN "N/A"
  ELSE IF value = Null THEN ""
  ELSE IF value.t = "datetime" THEN IsoFormat(value.v)
  ELSE IF value.t = "dict" THEN JsonDumps(value.v)
  ELSE IF value.t = "num" THEN ToString(value.v)
  ELSE value.v

\* Every key the model's states use, in the order sorted() gives to strings.
KeyOrder ==
  << "cell_density", "cell_type", "density_limit", "doubling_time",
     "end_density", "example_parameter", "freeze_medium", "growth_rate",
     "location", "measured_doubling_time", "measured_value",
     "number_of_passages", "number_of_vials", "operation_type",
     "parent_end_density", "parent_end_viability", "passage_number",
     "start_viability", "temperature_c", "total_cells",
     "transition_parameters", "volume_ml" >>

\* sorted(keys)
Sorted(keys) == SelectSeq(KeyOrder, LAMBDA k : k \in keys)

\* state.parameters['transition_parameters'] is there and is a dict.
HasTransitionDict(row) ==
  /\ "transition_parameters" \in DOMAIN row.parameters
  /\ IsDict(row.parameters["transition_parameters"])

\* Only the keys the states use.
collect_all_parameter_keys_UsedOnly(states) ==
  ( UNION { DOMAIN states[i].parameters : i \in DOMAIN states }
    \cup UNION { IF HasTransitionDict(states[i])
                   THEN DOMAIN states[i].parameters["transition_parameters"].v
                   ELSE {} : i \in DOMAIN states } )
  \ {"transition_parameters"}

\* collect_all_parameter_keys, lines 87-114, over the rows `states`.
collect_all_parameter_keys(states) ==
  ( UNION { DOMAIN states[i].parameters : i \in DOMAIN states }
    \cup UNION { IF HasTransitionDict(states[i])
                   THEN DOMAIN states[i].parameters["transition_parameters"].v
                   ELSE {} : i \in DOMAIN states }
    \cup ALL_POSSIBLE_PARAMETERS )
  \ {"transition_parameters"}

\* Lines 242-244 (and 124-127): the operation type of a state, None without
\* transition_parameters.
OperationType(row) ==
  IF "transition_parameters" \in DOMAIN row.parameters
    THEN DictGet(row.parameters["transition_parameters"].v, "operation_type")
    ELSE Null

\* Line 244: .get on a transition_parameters that is not a mapping raises.
RaisesOnExport(row) ==
  /\ "transition_parameters" \in DOMAIN row.parameters
  /\ ~IsDict(row.parameters["transition_parameters"])

IsEmptyValue(value) == value = Null \/ value = Str("")

FlatEntry(value, is_applicable) ==
  [value |-> value, is_applicable |-> is_applicable]

\* flatten_parameters, lines 116-168.
flatten_parameters(row) ==
  LET operation_type == OperationType(row)
      transition == IF HasTransitionDict(row)
                      THEN row.parameters["transition_parameters"].v
                      ELSE EmptyDict
      cell_type == IF "transition_parameters" \in DOMAIN row.parameters
                     THEN DictGet(transition, "cell_type") ELSE Null
      regular == DOMAIN row.parameters \ {"transition_parameters"}
      regular_value(key) ==
        IF key = "cell_type" /\ IsEmptyValue(row.parameters[key])
           /\ Truthy(cell_type)
          THEN cell_type ELSE row.parameters[key]
      overwrites(key) ==
        key \in DOMAIN transition
        /\ (key \notin regular \/ IsEmptyValue(regular_value(key)))
      late_cell_type ==
        IF "cell_type" \notin (regular \cup DOMAIN transition) /\ Truthy(cell_type)
          THEN {"cell_type"} ELSE {}
  IN [key \in regular \cup DOMAIN transition \cup late_cell_type |->
        IF overwrites(key)
          THEN FlatEntry(transition[key],
                         key = "operation_type"
                         \/ is_parameter_applicable(key, operation_type))
        ELSE IF key \in regular
          THEN FlatEntry(regular_value(key),
                         is_parameter_applicable(key, operation_type))
        ELSE FlatEntry(cell_type,
                       is_parameter_applicable("cell_type", operation_type))]

base_header_keys ==
  << "id", "name", "timestamp", "parent_id", "transition_type",
     "additional_notes", "notes" >>

base_headers ==
  << "ID", "Name (global)", "Timestamp (global)", "Parent ID (global)",
     "Transition Type (global)", "Additional Notes (global)",
     "Notes (global)" >>

\* Lines 231-239: the base fields of a state.
RowData(id, row) ==
  [id |-> Num(id), name |-> Str(row.name),
   timestamp |-> DateTime(row.timestamp),
   parent_id |-> IF row.parent_id = NoParent THEN Null ELSE Num(row.parent_id),
   transition_type |-> row.transition_type,
   additional_notes |-> row.additional_notes, notes |-> row.notes]

\* ", ".join(names)
RECURSIVE Join(_)
Join(names) ==
  IF names = <<>> THEN ""
  ELSE IF Len(names) = 1 THEN Head(names)
  ELSE Head(names) \o ", " \o Join(Tail(names))

\* Lines 193-204: the display header of a parameter key.
ParamHeader(key) ==
  IF key \notin DOMAIN ALL_PARAMETER_METADATA THEN key
  ELSE LET metadata == ALL_PARAMETER_METADATA[key] IN
       IF metadata.applicableToAllNodes
         THEN metadata.displayName \o " (global)"
       ELSE IF "operationSpecific" \in DOMAIN metadata
         THEN metadata.displayName \o " (" \o Join(metadata.operationSpecific)
              \o " specific)"
       ELSE metadata.displayName

\* Lines 251-268: the cell of one state under one header key.
Cell(id, row, header_key) ==
  LET operation_type == OperationType(row)
      flat_params == flatten_parameters(row)
  IN IF \E i \in DOMAIN base_header_keys : base_header_keys[i] = header_key
       THEN format_value(RowData(id, row)[header_key], NoKey, Null)
     ELSE IF header_key \in DOMAIN flat_params
       THEN format_value(flat_params[header_key].value, header_key,
                         IF flat_params[header_key].is_applicable
                           THEN operation_type ELSE Null)
     ELSE IF is_parameter_applicable(header_key, operation_type)
       THEN "" ELSE "N/A"

\* A row of n cells: `first`, then empty cells.
PaddedRow(first, n) == [i \in 1..n |-> IF i = 1 THEN first ELSE ""]

\* Lines 176-224 (and empty_generator, lines 315-352): the legend rows, the
\* blank row and the header row.
PreambleRows(all_parameter_keys) ==
  LET display_headers ==
        base_headers \o
        [i \in 1..Len(all_parameter_keys) |-> ParamHeader(all_parameter_keys[i])]
      n == Len(display_headers)
  IN << PaddedRow("LEGEND:", n),
        PaddedRow("'N/A' = Parameter not applicable to this operation type", n),
        PaddedRow("'empty' = Optional parameter not provided", n),
        PaddedRow("", n),
        display_headers >>

DataRow(id, row, original_headers) ==
  [i \in 1..Len(original_headers) |-> Cell(id, row, original_headers[i])]

\* generate_csv_rows, lines 170-273, over the states in the order `ids` of the
\* query result: what the generator has yielded when it ends, and whether it
\* ended by raising.
generate_csv_rows(s, ids) ==
  LET states == [i \in 1..Len(ids) |-> s[ids[i]]]
      all_parameter_keys == Sorted(collect_all_parameter_keys(states))
      original_headers == base_header_keys \o all_parameter_keys
      raising == {i \in 1..Len(ids) : RaisesOnExport(states[i])}
      written == IF raising = {} THEN Len(ids)
                 ELSE (CHOOSE i \in raising : \A j \in raising : i <= j) - 1
  IN [phase |-> IF raising = {} THEN "done" ELSE "error",
      original_headers |-> original_headers,
      states |-> SubSeq(ids, 1, written),
      rows |-> PreambleRows(all_parameter_keys) \o
               [i \in 1..written |-> DataRow(ids[i], states[i], original_headers)]]

\* The orders in which an unordered SELECT can hand over the stored ids.
QueryOrders(s) ==
  {ids \in [1..Cardinality(DOMAIN s) -> DOMAIN s] :
     \A i, j \in DOMAIN ids : i # j => ids[i] # ids[j]}

\* export_cell_states_csv, lines 285-381.
ExportCsv(ids) ==
  /\ csv' = generate_csv_rows(store, ids)
  /\ resp' = Reply("export_csv", 0, "200", NoBody)
  /\ UNCHANGED <<store, lq, fn, legacy, patch>>

\* ------------------------------------------------------------------------
\* SpecCsv: an export of every store of up to MaxCsvStates states.
\* ------------------------------------------------------------------------
MaxCsvStates == 2

Transition(operation_type, rest) ==
  Dict(DictUpdate([operation_type |-> operation_type], rest))

CsvParameterSets ==
  { EmptyDict,
    [number_of_vials |-> Num(3)],
    [cell_type |-> Str("Fibroblast"),
     transition_parameters |->
       Transition(Str("thaw"), [passage_number |-> Num(100)])],
    [cell_type |-> Str("CHO"), freeze_medium |-> Str("CryoStorCS10"),
     transition_parameters |->
       Transition(Str("freeze"), [number_of_vials |-> Num(10)])],
    [cell_type |-> Str(""), temperature_c |-> Null,
     transition_parameters |->
       Transition(Str("start_new_culture"), [cell_type |-> Str("HeLa")])],
    [transition_parameters |->
       Transition(Str("harvest"), [cell_density |-> Num(5)])],
    [volume_ml |-> Num(5), location |-> Dict([room |-> Str("A")]),
     transition_parameters |->
       Transition(Str("split"), [volume_ml |-> Num(7)])],
    [transition_parameters |-> Transition(Str("unknown_op"), EmptyDict)],
    [transition_parameters |-> Transition(Str(""), [measured_value |-> Num(4)])],
    [transition_parameters |-> Dict([cell_type |-> Str("Vero")])],
    [transition_parameters |-> Str("passage")] }

CsvRow(parameters) ==
  CreateCellStateRow(
    CreateBody("s", 9, NoParent, parameters, Str("thaw"), Null, Str("n")))

CsvStores ==
  UNION { [1..n -> {CsvRow(p) : p \in CsvParameterSets}] : n \in 0..MaxCsvStates }

InitCsv ==
  /\ store \in CsvStores
  /\ resp = Reply("none", 0, "none", NoBody)
  /\ lq = NoQuery
  /\ csv = NoCsv
  /\ fn = NoCall
  /\ legacy = NoLegacy
  /\ patch = NoPatch

NextCsv == \E ids \in QueryOrders(store) : ExportCsv(ids)

SpecCsv == InitCsv /\ [][NextCsv]_vars

\* The column of a parameter key in an export.
Column(key) == CHOOSE i \in 8..Len(csv.original_headers) : csv.original_headers[i] = key

\* The data cell of the r-th exported state under a parameter key.
DataCell(r, key) == csv.rows[5 + r][Column(key)]

ParameterKeys == {csv.original_headers[i] : i \in 8..Len(csv.original_headers)}

\* C10: in an export, the cell of a state under a parameter key is "N/A"
\* exactly when is_parameter_applicable(key, the state's operation type) is
\* false, whether or not the state carries a value for the key; when the key
\* applies, the cell is empty if the value is absent or None and the formatted
\* value otherwise.
C10_NotApplicableCells ==
  csv.phase \in {"done", "error"} =>
    \A r \in 1..Len(csv.states) : \A key \in ParameterKeys :
      LET row == store[csv.states[r]]
          flat_params == flatten_parameters(row)
          applicable == is_parameter_applicable(key, OperationType(row))
      IN /\ DataCell(r, key) = "N/A" <=> ~applicable
         /\ applicable =>
              DataCell(r, key) =
                IF key \notin DOMAIN flat_params \/ flat_params[key].value = Null
                  THEN ""
                  ELSE format_value(flat_params[key].value, NoKey, Null)

\* C11: the export of an empty store is the three legend rows, a blank row
\* and one header row: the 7 base headers and then one header per key of
\* ALL_POSSIBLE_PARAMETERS in sorted key order, with no data row; and every
\* export has a column for every known parameter key, used or not, and none
\* for 'transition_parameters'.
C11_HeaderColumns ==
  csv.phase \in {"done", "error"} =>
    LET sorted_known ==
          << "cell_density", "cell_type", "density_limit", "doubling_time",
             "end_density", "example_parameter", "growth_rate", "location",
             "measured_doubling_time", "measured_value", "number_of_passages",
             "number_of_vials", "operation_type", "parent_end_density",
             "parent_end_viability", "start_viability", "temperature_c",
             "total_cells", "volume_ml" >>
        n == Len(csv.original_headers)
    IN /\ {sorted_known[i] : i \in DOMAIN sorted_known} = ALL_POSSIBLE_PARAMETERS
       /\ ALL_POSSIBLE_PARAMETERS \subseteq ParameterKeys
       /\ "transition_parameters" \notin ParameterKeys
       /\ Len(csv.rows) = 5 + Len(csv.states)
       /\ \A r \in 1..Len(csv.rows) : Len(csv.rows[r]) = n
       /\ csv.rows[1][1] = "LEGEND:"
       /\ csv.rows[2][1] = "'N/A' = Parameter not applicable to this operation type"
       /\ csv.rows[3][1] = "'empty' = Optional parameter not provided"
       /\ \A r \in 1..4 : \A i \in 2..n : csv.rows[r][i] = ""
       /\ csv.rows[4][1] = ""
       /\ SubSeq(csv.rows[5], 1, 7) = base_headers
       /\ \A i \in 8..n : csv.rows[5][i] = ParamHeader(csv.original_headers[i])
       /\ store = <<>> =>
            /\ csv.original_headers = base_header_keys \o sorted_known
            /\ Len(csv.rows) = 5
            /\ csv.rows[5][8] = "Initial Cell Density (global)"
            /\ csv.rows[5][12] = "End Density (harvest specific)"

\* The empty store was exported: five rows of 26 cells and no data row.
C11_Witness ==
  /\ csv.phase = "done"
  /\ store = <<>>
  /\ Len(csv.rows) = 5
  /\ Len(csv.rows[5]) = 26

\* ------------------------------------------------------------------------
\* SpecFunctions: the pure functions of utils/parameters.py and calcs.py, each
\* called once, on any input of a bounded set.
\* ------------------------------------------------------------------------
Call(name, args, result) == [name |-> name, args |-> args, result |-> result]

ParamKeyInputs == ALL_POSSIBLE_PARAMETERS \cup {"non_existent_param"}

OperationTypeInputs ==
  {Null, Str("")}
  \cup {Str(op) : op \in DOMAIN OPERATION_PARAMETER_MAPPING}
  \cup {Str("non_existent_operation")}

CallIsParameterApplicable(param_key, operation_type) ==
  /\ fn = NoCall
  /\ fn' = Call("is_parameter_applicable", <<param_key, operation_type>>,
                is_parameter_applicable(param_key, operation_type))
  /\ UNCHANGED <<store, resp, lq, csv, legacy, patch>>

\* The largest cell count and the largest exponent of a calc_generation call.
MaxCount == 8

ValueError == [t |-> "ValueError"]

\* 2 ** k for k >= 0.
RECURSIVE Pow2(_)
Pow2(k) == IF k <= 0 THEN 1 ELSE 2 * Pow2(k - 1)

\* math.log2(num / den) for positive counts: the exponent when the ratio is a
\* power of two, the term log2(num/den) otherwise.
Log2Ratio(num, den) ==
  LET exact == {k \in (0 - MaxCount)..MaxCount :
                  IF k >= 0 THEN num = den * Pow2(k)
                            ELSE den = num * Pow2(0 - k)}
  IN IF exact # {} THEN Num(CHOOSE k \in exact : TRUE)
     ELSE [t |-> "log2", num |-> num, den |-> den]

\* a + b on floats: the number when both are numbers of the model, the term
\* a + b otherwise.
FloatAdd(a, b) ==
  IF a.t = "num" /\ b.t = "num" THEN Num(a.v + b.v)
  ELSE [t |-> "sum", a |-> a, b |-> b]

\* The parent generation is not added.
calc_generation_ParentDropped(seed_count, harvest_count, parent_generation) ==
  IF seed_count <= 0 \/ harvest_count <= 0 THEN ValueError
  ELSE Log2Ratio(harvest_count, seed_count)

\* calcs.calc_generation, lines 8-29.
calc_generation(seed_count, harvest_count, parent_generation) ==
  IF seed_count <= 0 \/ harvest_count <= 0 THEN ValueError
  ELSE LET current_pd == Log2Ratio(harvest_count, seed_count)
       IN IF parent_generation = Null THEN current_pd
          ELSE FloatAdd(parent_generation, current_pd)

CountInputs == (0 - 1)..MaxCount

GenerationInputs == {Null} \cup {Num(g) : g \in (0 - 1)..2}

CallCalcGeneration(seed_count, harvest_count, parent_generation) ==
  /\ fn = NoCall
  /\ fn' = Call("calc_generation",
                <<seed_count, harvest_count, parent_generation>>,
                calc_generation(seed_count, harvest_count, parent_generation))
  /\ UNCHANGED <<store, resp, lq, csv, legacy, patch>>

\* The longest time span of a call, in hours.
MaxHours == 4

\* calcs.py line 6.
DATETIME_FORMAT == "%Y-%m-%dT%H:%M"

\* A timestamp string: the format it is written in and the hour it names.
TimeString(format, hour) == [format |-> format, hour |-> hour]

TimeStringInputs ==
  {TimeString(format, hour) :
     format \in {DATETIME_FORMAT, "%Y-%m-%dT%H:%M:%S", "%d/%m/%Y"},
     hour \in 0..MaxHours}

\* datetime.strptime(string, format): the hour named, or ValueError when the
\* string is not written in `format`.
strptime(string, format) ==
  IF string.format = format THEN Num(string.hour) ELSE ValueError

\* a / b on floats, b # 0: the number when the quotient is whole, the term a/b
\* otherwise.
FloatDiv(a, b) ==
  IF a % b = 0 THEN Num(a \div b)
  ELSE [t |-> "quot", num |-> a, den |-> b]

\* A doubling time of 0 where the population did not grow.
calc_doubling_time_hours_ZeroForNoGrowth(start_time, harvest_time, pd) ==
  LET start == strptime(start_time, DATETIME_FORMAT)
      harvest == strptime(harvest_time, DATETIME_FORMAT)
  IN IF start = ValueError \/ harvest = ValueError THEN ValueError
     ELSE LET hours == harvest.v - start.v
          IN IF pd > 0 THEN FloatDiv(hours, pd) ELSE Num(0)

\* calcs.calc_doubling_time_hours, lines 31-46.
calc_doubling_time_hours(start_time, harvest_time, pd) ==
  LET start == strptime(start_time, DATETIME_FORMAT)
      harvest == strptime(harvest_time, DATETIME_FORMAT)
  IN IF start = ValueError \/ harvest = ValueError THEN ValueError
     ELSE LET hours == harvest.v - start.v
          IN IF pd > 0 THEN FloatDiv(hours, pd) ELSE Null

PdInputs == (0 - 1)..3

CallCalcDoublingTimeHours(start_time, harvest_time, pd) ==
  /\ fn = NoCall
  /\ fn' = Call("calc_doubling_time_hours", <<start_time, harvest_time, pd>>,
                calc_doubling_time_hours(start_time, harvest_time, pd))
  /\ UNCHANGED <<store, resp, lq, csv, legacy, patch>>

\* A parent_pd of None gives None.
calc_cumulative_pd_ParentRequired(current_pd, parent_pd) ==
  IF current_pd = Null \/ parent_pd = Null THEN Null
  ELSE FloatAdd(current_pd, parent_pd)

\* calcs.calc_cumulative_pd, lines 48-66.
calc_cumulative_pd(current_pd, parent_pd) ==
  IF current_pd = Null THEN Null
  ELSE IF parent_pd = Null THEN current_pd
  ELSE FloatAdd(current_pd, parent_pd)

OptionalPdInputs == {Null} \cup {Num(pd) : pd \in (0 - 2)..3}

CallCalcCumulativePd(current_pd, parent_pd) ==
  /\ fn = NoCall
  /\ fn' = Call("calc_cumulative_pd", <<current_pd, parent_pd>>,
                calc_cumulative_pd(current_pd, parent_pd))
  /\ UNCHANGED <<store, resp, lq, csv, legacy, patch>>

\* The largest density of a calculate_measured_parameters call.
MaxDensity == 5

\* datetime.fromisoformat(string): the hour named, or ValueError when the
\* string is not an ISO 8601 date and time.
fromisoformat(string) ==
  IF string.format \in {"%Y-%m-%dT%H:%M", "%Y-%m-%dT%H:%M:%S"}
    THEN Num(string.hour) ELSE ValueError

\* calcs.calculate_measured_parameters, lines 68-142, from the timestamp
\* strings: a ValueError of the parsing is caught at line 136.
calculate_measured_parameters(start_density, end_density, start_time, end_time) ==
  LET start == fromisoformat(start_time)
      end == fromisoformat(end_time)
  IN IF start = ValueError \/ end = ValueError THEN AllNoValue
     ELSE CalculateMeasuredParameters(start_density, end_density, start.v, end.v)

DensityInputs == (0 - 1)..MaxDensity

CallCalculateMeasuredParameters(start_density, end_density, start_time, end_time) ==
  /\ fn = NoCall
  /\ fn' = Call("calculate_measured_parameters",
                <<start_density, end_density, start_time, end_time>>,
                calculate_measured_parameters(start_density, end_density,
                                              start_time, end_time))
  /\ UNCHANGED <<store, resp, lq, csv, legacy, patch>>

\* The specification of the calls.

InitFunctions ==
  /\ store = [i \in {} |-> Null]
  /\ resp = Reply("none", 0, "none", NoBody)
  /\ lq = NoQuery
  /\ csv = NoCsv
  /\ fn = NoCall
  /\ legacy = NoLegacy
  /\ patch = NoPatch

NextFunctions ==
  \/ \E param_key \in ParamKeyInputs, operation_type \in OperationTypeInputs :
       CallIsParameterApplicable(param_key, operation_type)
  \/ \E seed_count \in CountInputs, harvest_count \in CountInputs,
        parent_generation \in GenerationInputs :
       CallCalcGeneration(seed_count, harvest_count, parent_generation)
  \/ \E start_time \in TimeStringInputs, harvest_time \in TimeStringInputs,
        pd \in PdInputs :
       CallCalcDoublingTimeHours(start_time, harvest_time, pd)
  \/ \E current_pd \in OptionalPdInputs, parent_pd \in OptionalPdInputs :
       CallCalcCumulativePd(current_pd, parent_pd)
  \/ \E start_density \in DensityInputs, end_density \in DensityInputs,
        start_time \in TimeStringInputs, end_time \in TimeStringInputs :
       CallCalculateMeasuredParameters(start_density, end_density,
                                       start_time, end_time)

SpecFunctions == InitFunctions /\ [][NextFunctions]_vars

\* C12: without an operation type (None or empty) is_parameter_applicable is
\* the key's applicableToAllNodes flag, false for an unknown key; with one it
\* is membership of the key in OPERATION_PARAMETER_MAPPING[op] and nothing
\* else, false for an unknown operation type or an unknown key.
C12_Applicability ==
  fn.name = "is_parameter_applicable" =>
    LET key == fn.args[1]
        op == fn.args[2]
    IN IF op = Null \/ op = Str("")
         THEN fn.result = (/\ key \in DOMAIN ALL_PARAMETER_METADATA
                           /\ ALL_PARAMETER_METADATA[key].applicableToAllNodes)
         ELSE fn.result = (/\ op.v \in DOMAIN OPERATION_PARAMETER_MAPPING
                           /\ key \in OPERATION_PARAMETER_MAPPING[op.v])

\* cell_density is flagged applicableToAllNodes and is not listed for
\* 'harvest': not applicable.
C12_Witness ==
  /\ fn.name = "is_parameter_applicable"
  /\ fn.args = <<"cell_density", Str("harvest")>>
  /\ ALL_PARAMETER_METADATA["cell_density"].applicableToAllNodes
  /\ fn.result = FALSE

\* C13: calc_generation fails with an invalid-input error whenever seed <= 0
\* or harvest <= 0, whatever the other arguments; otherwise it returns
\* log2(harvest/seed), plus the parent generation when one is supplied.
C13_Generation ==
  fn.name = "calc_generation" =>
    LET seed == fn.args[1]
        harvest == fn.args[2]
        parent == fn.args[3]
        offset == IF parent = Null THEN 0 ELSE parent.v
        power_of_two == \E k \in 0..MaxCount :
                          harvest = seed * Pow2(k) \/ seed = harvest * Pow2(k)
        term == [t |-> "log2", num |-> harvest, den |-> seed]
    IN IF seed <= 0 \/ harvest <= 0
         THEN fn.result = ValueError
       ELSE IF power_of_two
         THEN /\ fn.result.t = "num"
              /\ LET pd == fn.result.v - offset
                 IN IF pd >= 0 THEN harvest = seed * Pow2(pd)
                               ELSE seed = harvest * Pow2(0 - pd)
       ELSE fn.result = IF parent = Null THEN term
                        ELSE [t |-> "sum", a |-> parent, b |-> term]

\* calc_generation(1, 8, 2) = 3 + 2.
C13_Witness ==
  /\ fn.name = "calc_generation"
  /\ fn.args = <<1, 8, Num(2)>>
  /\ fn.result = Num(5)

C15_CumulativePd ==
  fn.name = "calc_cumulative_pd" =>
    LET x == fn.args[1]
        y == fn.args[2]
    IN /\ x = Null => fn.result = Null
       /\ (x # Null /\ y = Null) => fn.result = x
       /\ (x # Null /\ y # Null) => fn.result = Num(x.v + y.v)

\* calc_cumulative_pd(2, None) = 2.
C15_Witness ==
  /\ fn.name = "calc_cumulative_pd"
  /\ fn.args = <<Num(2), Null>>
  /\ fn.result = Num(2)

\* Both timestamp strings of a calculate_measured_parameters call parse.
Parseable(call) ==
  /\ fromisoformat(call.args[3]) # ValueError
  /\ fromisoformat(call.args[4]) # ValueError

\* C16: for numeric densities and parseable timestamps
\* calculate_measured_parameters raises nothing: it returns the three fields
\* as "no value" when end_time <= start_time, when a density is <= 0 or when
\* end_density < start_density, and a growth rate and a density limit that are
\* not null in every other case.
C16_MeasuredNoValue ==
  (fn.name = "calculate_measured_parameters" /\ Parseable(fn)) =>
    LET start_density == fn.args[1]
        end_density == fn.args[2]
        start_hour == fn.args[3].hour
        end_hour == fn.args[4].hour
    IN /\ fn.result # ValueError
       /\ DOMAIN fn.result = {"measured_growth_rate", "measured_doubling_time",
                              "measured_density_limit"}
       /\ IF \/ end_hour <= start_hour
             \/ start_density <= 0 \/ end_density <= 0
             \/ end_density < start_density
            THEN \A k \in DOMAIN fn.result : fn.result[k] = Null
            ELSE /\ fn.result.measured_growth_rate # Null
                 /\ fn.result.measured_density_limit # Null

\* Densities 4 -> 2 over two hours: the decay case, three "no value" fields.
C16_Witness ==
  /\ fn.name = "calculate_measured_parameters"
  /\ fn.args[1] = 4 /\ fn.args[2] = 2
  /\ Parseable(fn)
  /\ fn.args[4].hour - fn.args[3].hour = 2
  /\ fn.result = AllNoValue

\* A call of calculate_measured_parameters on positive densities that did not
\* shrink, over a positive time span.
GrowthCase(call) ==
  /\ call.name = "calculate_measured_parameters" /\ Parseable(call)
  /\ call.args[4].hour > call.args[3].hour
  /\ call.args[1] > 0 /\ call.args[2] >= call.args[1]

\* C17 as stated: equal positive densities over a positive time span give a
\* growth rate of 0 and no doubling time; a doubling time is returned only
\* when the growth rate is strictly positive; and the density limit is
\* 2 x end_density when end_density > 1.5 x start_density and
\* 1.2 x end_density otherwise.
C17_GrowthAndLimit ==
  GrowthCase(fn) =>
    LET start_density == fn.args[1]
        end_density == fn.args[2]
        rate == fn.result.measured_growth_rate
        limit == fn.result.measured_density_limit
    IN /\ end_density = start_density =>
            rate = Num(0) /\ fn.result.measured_doubling_time = Null
       /\ fn.result.measured_doubling_time # Null =>
            rate.t = "ln_rate" /\ rate.num > rate.den
       /\ limit.t = "num"
       /\ IF 2 * end_density > 3 * start_density
            THEN limit.v = 2 * end_density
            ELSE 10 * limit.v = 12 * end_density

\* C17, amended: as above, with the density limit rounded to a whole number:
\* 2 x end_density when end_density > 1.5 x start_density, and the whole
\* number nearest to 1.2 x end_density otherwise; a doubling time is returned
\* exactly when end_density > start_density.
C17_GrowthAndRoundedLimit ==
  GrowthCase(fn) =>
    LET start_density == fn.args[1]
        end_density == fn.args[2]
        rate == fn.result.measured_growth_rate
        limit == fn.result.measured_density_limit
    IN /\ end_density = start_density =>
            rate = Num(0) /\ fn.result.measured_doubling_time = Null
       /\ fn.result.measured_doubling_time # Null <=> end_density > start_density
       /\ fn.result.measured_doubling_time # Null =>
            rate.t = "ln_rate" /\ rate.num > rate.den
       /\ limit.t = "num"
       /\ IF 2 * end_density > 3 * start_density
            THEN limit.v = 2 * end_density
            ELSE /\ 10 * limit.v - 12 * end_density <= 5
                 /\ 12 * end_density - 10 * limit.v <= 5

\* Densities 3 -> 3 over a positive span: rate 0, no doubling time, and a
\* density limit of 4, the whole number nearest to 3.6.
C17_Witness ==
  /\ GrowthCase(fn)
  /\ fn.args[1] = 3 /\ fn.args[2] = 3
  /\ fn.result.measured_growth_rate = Num(0)
  /\ fn.result.measured_doubling_time = Null
  /\ fn.result.measured_density_limit = Num(4)

\* Both timestamp strings of a calc_doubling_time_hours call are written in
\* DATETIME_FORMAT.
InDatetimeFormat(call) ==
  /\ call.args[1].format = DATETIME_FORMAT
  /\ call.args[2].format = DATETIME_FORMAT

PassageRow(id, start_time, parent_id, seed_count, harvest_count, generation, doubling_time_hours, cumulative_pd) ==
  [id |-> id, start_time |-> start_time, parent_id |-> parent_id,
   seed_count |-> seed_count, harvest_count |-> harvest_count,
   generation |-> generation, doubling_time_hours |-> doubling_time_hours,
   cumulative_pd |-> cumulative_pd]

\* Lines 57-72 raise: start_time is NULL (TypeError) or not an ISO date and
\* time (ValueError).
PassageRaises(passage) ==
  \/ passage.start_time = Null
  \/ fromisoformat(passage.start_time) = ValueError

\* Lines 57-72: the CellState built from a passage.  The old parent_id and the
\* stored generation, doubling time and cumulative_pd are copied as they are.
MigratedState(passage) ==
  [name |-> "", timestamp |-> fromisoformat(passage.start_time).v,
   parent_id |-> passage.parent_id,
   parameters |->
     [status |-> Str("culturing"), temperature_c |-> Num(37),
      volume_ml |-> Num(20), location |-> Str("incubator"),
      passage_number |-> Num(passage.id),
      seed_count |-> Num(passage.seed_count),
      harvest_count |-> Num(passage.harvest_count),
      generation |-> passage.generation,
      doubling_time_hours |-> passage.doubling_time_hours,
      cumulative_pd |-> passage.cumulative_pd],
   transition_type |-> Null, additional_notes |-> Null, notes |-> Null]

\* Lines 54-91: the session after the loop over the passages.  `base` is the
\* committed table; a passage that raises rolls the session back to it
\* (line 90), which discards every state flushed before.
RECURSIVE MigratePassages(_, _, _)
MigratePassages(base, s, passages) ==
  IF passages = <<>> THEN s
  ELSE IF PassageRaises(Head(passages))
    THEN MigratePassages(base, base, Tail(passages))
    ELSE MigratePassages(base, Put(s, NextId(s), MigratedState(Head(passages))),
                         Tail(passages))

\* The rows a migration made durable.
MigrationWrites(before, after) ==
  {<<"insert", id>> : id \in DOMAIN after \ DOMAIN before}

\* What an old database looks like after the migration: tables dropped
\* (lines 123-131) and the marker written (line 132).
Migrated == [marker |-> TRUE, tables |-> {}, passage |-> <<>>]

\* The outcome that writes the marker although the migration raised.
MigrationOutcome_MarkedOnRaise(s, l, raised) ==
  IF l.marker
    THEN [store |-> s, legacy |-> l, status |-> "skipped"]
  ELSE IF l.tables = {}
    THEN [store |-> s, legacy |-> [l EXCEPT !.marker = TRUE],
          status |-> "not needed"]
  ELSE IF raised
    THEN [store |-> s, legacy |-> [l EXCEPT !.marker = TRUE],
          status |-> "raised"]
  ELSE [store |-> IF "passage" \in l.tables
                    THEN MigratePassages(s, s, l.passage) ELSE s,
        legacy |-> Migrated, status |-> "completed"]

\* migrations.migrate_old_to_new, lines 26-137: the store, the old database
\* and the outcome it leaves.  `raised`: the commit of line 120 raises (the
\* database is locked or cannot be written), which the handler of lines
\* 135-137 logs and raises again; nothing was made durable by then.
MigrationOutcome(s, l, raised) ==
  IF l.marker
    THEN [store |-> s, legacy |-> l, status |-> "skipped"]
  ELSE IF l.tables = {}
    THEN [store |-> s, legacy |-> [l EXCEPT !.marker = TRUE],
          status |-> "not needed"]
  ELSE IF raised
    THEN [store |-> s, legacy |-> l, status |-> "raised"]
  ELSE [store |-> IF "passage" \in l.tables
                    THEN MigratePassages(s, s, l.passage) ELSE s,
        legacy |-> Migrated, status |-> "completed"]

\* migrate_old_to_new as startup_event calls it (main.py:52-61).
MigrateOldToNew ==
  \E raised \in BOOLEAN :
    LET outcome == MigrationOutcome(store, legacy, raised) IN
    /\ store' = outcome.store
    /\ legacy' = outcome.legacy
    /\ resp' = ReplyW("migrate", 0, outcome.status, NoBody,
                      MigrationWrites(store, outcome.store),
                      MigrationWrites(store, outcome.store))
    /\ UNCHANGED <<lq, csv, fn, patch>>

\* The old databases of SpecMigrate: none; a root passage and its child; the
\* same pair under ids 2 and 3; the pair with a first passage whose start_time
\* cannot be parsed; the pair with a second passage without start_time; a
\* database already marked migrated.
RootPassage(id, start_time) ==
  PassageRow(id, start_time, NoParent, 1, 2, Num(1), Num(2), Num(1))

ChildPassage(id, start_time, parent_id) ==
  PassageRow(id, start_time, parent_id, 1, 4, Num(3), Num(1), Num(3))

LegacyInputs ==
  { [marker |-> FALSE, tables |-> {}, passage |-> <<>>],
    NoLegacy,
    [marker |-> FALSE, tables |-> {"passage", "growthmeasurement"},
     passage |-> <<RootPassage(1, TimeString(DATETIME_FORMAT, 0)), ChildPassage(2, TimeString(DATETIME_FORMAT, 2), 1)>>],
    [marker |-> FALSE, tables |-> {"passage"},
     passage |-> <<RootPassage(2, TimeString(DATETIME_FORMAT, 0)), ChildPassage(3, TimeString(DATETIME_FORMAT, 2), 2)>>],
    [marker |-> FALSE, tables |-> {"passage"},
     passage |-> <<RootPassage(1, TimeString("%d/%m/%Y", 0)), ChildPassage(2, TimeString(DATETIME_FORMAT, 2), 1)>>],
    [marker |-> FALSE, tables |-> {"passage"},
     passage |-> <<RootPassage(1, TimeString(DATETIME_FORMAT, 0)), ChildPassage(2, Null, 1)>>],
    [marker |-> FALSE, tables |-> {"growthmeasurement"}, passage |-> <<>>] }

\* The create bodies of SpecMigrate: a root passage of one doubling and a
\* child passage of two doublings under any parent_id, each carrying the
\* cumulative_pd the client computed for it.
PdBodies ==
  { CreateBody("p1", 1, NoParent,
               [seed_count |-> Num(1), harvest_count |-> Num(2),
                cumulative_pd |-> Num(1)],
               Str("passage"), Null, Null) }
  \cup
  { CreateBody("p2", 2, p,
               [seed_count |-> Num(1), harvest_count |-> Num(4),
                cumulative_pd |-> Num(3)],
               Str("passage"), Null, Null) : p \in Ids }

InitMigrate ==
  /\ store = [i \in {} |-> Null]
  /\ resp = Reply("none", 0, "none", NoBody)
  /\ lq = NoQuery
  /\ csv = NoCsv
  /\ fn = NoCall
  /\ legacy \in LegacyInputs
  /\ patch = NoPatch

\* startup_event runs the migration before the application serves a request;
\* every path of it that returns leaves the marker written.
NextMigrate ==
  \/ MigrateOldToNew
  \/ legacy.marker /\ \E body \in PdBodies : CreateState(body)
  \/ legacy.marker /\ \E id \in RequestIds : RouteDeleteCellState(id)
  \/ legacy.marker /\ \E id \in RequestIds : CrudDeleteCellState(id)

SpecMigrate == InitMigrate /\ [][NextMigrate]_vars

\* The population doublings of a node's own passage: log2(harvest/seed).
OwnPd(row) == Log2Ratio(row.parameters["harvest_count"].v, row.parameters["seed_count"].v)

CarriesCumulativePd(row) ==
  /\ {"cumulative_pd", "seed_count", "harvest_count"} \subseteq DOMAIN row.parameters
  /\ row.parameters["cumulative_pd"] # Null

\* The cumulative_pd of a node's parent: 0 for a root, no value when the
\* parent is missing or carries none.
ParentCumulativePd(s, row) ==
  IF row.parent_id = NoParent THEN Num(0)
  ELSE IF row.parent_id \in DOMAIN s /\ CarriesCumulativePd(s[row.parent_id])
    THEN s[row.parent_id].parameters["cumulative_pd"]
  ELSE Null

\* C18: in every reachable store state, every node that carries a
\* cumulative_pd has cumulative_pd = its own population doublings + the
\* cumulative_pd of its parent (0 for a root).
C18_CumulativePdInvariant ==
  \A id \in DOMAIN store :
    CarriesCumulativePd(store[id]) =>
      store[id].parameters["cumulative_pd"]
        = FloatAdd(OwnPd(store[id]), ParentCumulativePd(store, store[id]))


\* C19: a lineage query terminates on every store: the ancestors walk stops
\* at an already-visited node and the descendants enumeration visits each
\* node at most once, so no query collects a node twice, parent cycle or not.
C19_VisitsEachNodeOnce ==
  lq.phase # "idle" =>
    \A i, j \in 1..Len(lq.result) : i # j => lq.result[i] # lq.result[j]


\* The number of leading entries of a finished result that the ancestors
\* branch appended.
AncestorCount(s, q) ==
  IF q.direction \in {"ancestors", "both"}
    THEN Cardinality(ProperAncestors(s, q.state_id)) ELSE 0

\* C20: the result of a finished lineage query on a forest is ordered: the
\* ancestors nearest-first (parent, grandparent, ... root); the descendants in
\* depth-first pre-order, each after its own parent and each subtree in one
\* block; for "both" every ancestor before every descendant.
C20_ResultOrder ==
  (lq.phase = "done" /\ IsForest(store) /\ Exists(store, lq.state_id)) =>
    LET n == lq.state_id
        r == lq.result
        k == AncestorCount(store, lq)
    IN /\ k <= Len(r)
       /\ \A i \in 1..k :
            r[i] = store[IF i = 1 THEN n ELSE r[i - 1]].parent_id
       /\ \A i \in (k + 1)..Len(r) :
            /\ r[i] \in ProperDescendants(store, n)
            /\ \/ store[r[i]].parent_id = n
               \/ \E j \in (k + 1)..(i - 1) : r[j] = store[r[i]].parent_id
       /\ \A i, j \in (k + 1)..Len(r) :
            (i < j /\ r[i] \in ProperAncestors(store, r[j])) =>
              \A m \in (i + 1)..(j - 1) : r[i] \in ProperAncestors(store, r[m])

\* root -> A -> n -> c -> g and the finished query (n, "both"): the result is
\* A, root, c, g.
C20_Witness ==
  /\ lq.phase = "done" /\ lq.direction = "both"
  /\ IsForest(store) /\ Exists(store, lq.state_id)
  /\ Len(lq.result) = 4
  /\ lq.result[1] = store[lq.state_id].parent_id
  /\ lq.result[2] = store[lq.result[1]].parent_id
  /\ store[lq.result[2]].parent_id = NoParent
  /\ store[lq.result[3]].parent_id = lq.state_id
  /\ store[lq.result[4]].parent_id = lq.result[3]


\* The node whose parent_id ended the ancestors walk of a finished query.
LastWalked(q) ==
  IF q.result = <<>> THEN q.state_id ELSE q.result[Len(q.result)]

\* What a finished query holds in the cases of C21.
LineageEdgeCases ==
  lq.phase = "done" =>
    /\ ~Exists(store, lq.state_id) => lq.result = <<>>
    /\ ( /\ Exists(store, lq.state_id)
         /\ store[lq.state_id].parent_id = NoParent
         /\ Children(store, lq.state_id) = {} ) => lq.result = <<>>
    /\ (Exists(store, lq.state_id) /\ lq.direction = "ancestors") =>
         /\ \A i \in 1..Len(lq.result) :
              /\ Exists(store, lq.result[i])
              /\ lq.result[i]
                   = store[IF i = 1 THEN lq.state_id
                                    ELSE lq.result[i - 1]].parent_id
         /\ \/ store[LastWalked(lq)].parent_id = NoParent
            \/ ~Exists(store, store[LastWalked(lq)].parent_id)

\* C21: a lineage query on an id that is not stored returns [] for every
\* direction; on a node without parent and children it returns []; an
\* ancestors walk that meets a parent_id naming no stored node stops there and
\* returns the ancestors collected so far; no step of a query changes the
\* store.
C21_LineageEdgeCases == [](LineageEdgeCases) /\ [][store' = store]_vars

\* A finished ancestors query that collected one ancestor whose own parent_id
\* names a node that is not stored.
C21_Witness ==
  /\ lq.phase = "done" /\ lq.direction = "ancestors"
  /\ Len(lq.result) = 1
  /\ store[lq.result[1]].parent_id # NoParent
  /\ ~Exists(store, store[lq.result[1]].parent_id)


\* ------------------------------------------------------------------------
\* SpecMeasured: the two create handlers and the calculate-measured-parameters
\* handler on states that carry densities and measured_* values.
\* ------------------------------------------------------------------------
MeasurementParams == [operation_type |-> Str("measurement")]

\* The create bodies of SpecMeasured.  Roots at hour 1: a density of 2, the
\* same with a measured value already present, a density that is text, no
\* density, a density of 0.  Children under any parent_id: a passage at hour 3
\* with density 4, a measurement, a passage at the parent's own hour, a
\* passage with a density below the parent's.
MeasuredBodies ==
  { CreateBody("r", 1, NoParent, [cell_density |-> Num(2)], Null, Null, Null),
    CreateBody("r", 1, NoParent,
               [cell_density |-> Num(2), measured_growth_rate |-> Num(9)],
               Null, Null, Null),
    CreateBody("r", 1, NoParent, [cell_density |-> Str("2")], Null, Null, Null),
    CreateBody("r", 1, NoParent, EmptyDict, Null, Null, Null),
    CreateBody("r", 1, NoParent, [cell_density |-> Num(0)], Null, Null, Null) }
  \cup
  UNION {
    { CreateBody("k", 3, p,
                 [cell_density |-> Num(4),
                  transition_parameters |-> Dict(PassageParams)],
                 Null, Null, Null),
      CreateBody("k", 3, p,
                 [cell_density |-> Num(4),
                  transition_parameters |-> Dict(MeasurementParams)],
                 Null, Null, Null),
      CreateBody("k", 1, p,
                 [cell_density |-> Num(4),
                  transition_parameters |-> Dict(PassageParams)],
                 Null, Null, Null),
      CreateBody("k", 3, p,
                 [cell_density |-> Num(1),
                  transition_parameters |-> Dict(PassageParams)],
                 Null, Null, Null) }
    : p \in Ids }

\* routers/calculations.calc_measured_parameters, lines 40-169: the message
\* of the response.
CalcMessage(s, start_state_id, end_state_id) ==
  IF ~Exists(s, start_state_id) THEN "Start state not found"
  ELSE IF ~Exists(s, end_state_id) THEN "End state not found"
  ELSE LET start_density == DictGet(s[start_state_id].parameters, "cell_density")
           end_density == DictGet(s[end_state_id].parameters, "cell_density")
       IN IF ~IsNumber(start_density) \/ start_density.v <= 0
            THEN "Invalid or missing start density"
          ELSE IF ~IsNumber(end_density) \/ end_density.v <= 0
            THEN "Invalid or missing end density"
          ELSE IF s[end_state_id].timestamp <= s[start_state_id].timestamp
            THEN "End time must be after start time"
          ELSE "Measured parameters calculated successfully"

\* Lines 133-138: the result of the calculation on the two stored states.
CalcResult(s, start_state_id, end_state_id) ==
  CalculateMeasuredParameters(
    s[start_state_id].parameters["cell_density"].v,
    s[end_state_id].parameters["cell_density"].v,
    s[start_state_id].timestamp, s[end_state_id].timestamp)

\* The handler.  Lines 141-142 update end_state.parameters in place and
\* commit, like lines 77-79 of the create route.
CalcMeasuredParameters(start_state_id, end_state_id) ==
  LET message == CalcMessage(store, start_state_id, end_state_id)
      success == message = "Measured parameters calculated successfully"
  IN
  /\ IF success
       THEN LET result == CalcResult(store, start_state_id, end_state_id)
                after == CommitInPlaceUpdate(store, end_state_id, result)
            IN /\ store' = after
               /\ resp' = ReplyW("calc_measured_parameters", end_state_id,
                                 "true",
                                 [start_state_id |-> Num(start_state_id),
                                  end_state_id |-> Num(end_state_id),
                                  measured |-> Dict(result)],
                                 {<<"update", end_state_id>>},
                                 IF after # store
                                   THEN {<<"update", end_state_id>>} ELSE {})
       ELSE /\ store' = store
            /\ resp' = Reply("calc_measured_parameters", end_state_id, "false",
                             [start_state_id |-> Num(start_state_id),
                              end_state_id |-> Num(end_state_id),
                              message |-> Str(message)])
  /\ UNCHANGED <<lq, csv, fn, legacy, patch>>

NextMeasured ==
  \/ \E body \in MeasuredBodies : CreateState(body)
  \/ \E body \in MeasuredBodies : CreateCellState(body)
  \/ \E start_state_id, end_state_id \in RequestIds :
       CalcMeasuredParameters(start_state_id, end_state_id)

SpecMeasured == Init /\ [][NextMeasured]_vars

\* C22: a create through the cell_states route whose parent already carries a
\* measured_* key leaves the parent's parameters as they were (so the route
\* writes a parent's measured values at most once).
C22_MeasuredNotOverwritten ==
  [][ (resp'.op = "create_cell_state" /\ resp'.id \notin DOMAIN store) =>
        \A p \in DOMAIN store :
          (p = resp'.body.parent_id /\ HasMeasured(store[p])) =>
            store'[p].parameters = store[p].parameters ]_vars

\* A passage child with a usable density was created under a parent that has
\* a usable density and already carries a measured value.
C22_Witness ==
  /\ resp.op = "create_cell_state" /\ resp.status = "201"
  /\ Exists(store, resp.id)
  /\ store[resp.id].parent_id \in DOMAIN store \ {resp.id}
  /\ WantsParentUpdate(store[resp.id])
  /\ DensitiesUsable(store[store[resp.id].parent_id], store[resp.id])
  /\ HasMeasured(store[store[resp.id].parent_id])


MeasuredKeys ==
  {"measured_growth_rate", "measured_doubling_time", "measured_density_limit"}

\* The child of a create is a measurement: its transition_parameters name the
\* operation type 'measurement'.
IsMeasurement(row) ==
  /\ "transition_parameters" \in DOMAIN row.parameters
  /\ IsDict(row.parameters["transition_parameters"])
  /\ DictGet(row.parameters["transition_parameters"].v, "operation_type")
       = Str("measurement")

\* A create through the cell_states route of a measurement child leaves the
\* parent as it was.
MeasurementLeavesParent ==
  [][ (resp'.op = "create_cell_state" /\ resp'.id \notin DOMAIN store) =>
        \A p \in DOMAIN store :
          (p = resp'.body.parent_id /\ IsMeasurement(store'[resp'.id])) =>
            store'[p] = store[p] ]_vars

\* C23: a create through the cell_states route of a measurement child never
\* triggers the calculation and leaves the parent unchanged; the create of a
\* non-measurement child under a parent, both with a numeric cell_density > 0
\* and the parent without a measured_* key, adds measured_growth_rate,
\* measured_doubling_time and measured_density_limit to the parent.
C23_MeasuredAddedToParent ==
  [][ (resp'.op = "create_cell_state" /\ resp'.id \notin DOMAIN store) =>
        \A p \in DOMAIN store :
          p = resp'.body.parent_id =>
            /\ IsMeasurement(store'[resp'.id]) => store'[p] = store[p]
            /\ ( /\ WantsParentUpdate(store'[resp'.id])
                 /\ DensitiesUsable(store[p], store'[resp'.id])
                 /\ ~HasMeasured(store[p]) ) =>
                 MeasuredKeys \subseteq DOMAIN store'[p].parameters ]_vars


\* C24: the calculate-measured-parameters handler answers success=false and
\* changes no node when the start or the end state is absent, when either
\* cell_density is missing, not a number or <= 0, or when the end timestamp is
\* not after the start timestamp; when it answers success=true the end state's
\* parameters hold the three measured_* values merged in and nothing else
\* changed.
C24_CalcMeasuredEndpoint ==
  [][ resp'.op = "calc_measured_parameters" =>
        LET start_state_id == resp'.body.start_state_id.v
            end_state_id == resp'.body.end_state_id.v
            start_density ==
              IF Exists(store, start_state_id)
                THEN DictGet(store[start_state_id].parameters, "cell_density")
                ELSE Null
            end_density ==
              IF Exists(store, end_state_id)
                THEN DictGet(store[end_state_id].parameters, "cell_density")
                ELSE Null
            refused ==
              \/ ~Exists(store, start_state_id) \/ ~Exists(store, end_state_id)
              \/ ~IsNumber(start_density) \/ ~IsNumber(end_density)
              \/ start_density.v <= 0 \/ end_density.v <= 0
              \/ store[end_state_id].timestamp <= store[start_state_id].timestamp
        IN /\ refused => (resp'.status = "false" /\ store' = store)
           /\ resp'.status = "false" => store' = store
           /\ resp'.status = "true" =>
                /\ DOMAIN store' = DOMAIN store
                /\ \A n \in DOMAIN store \ {end_state_id} : store'[n] = store[n]
                /\ store'[end_state_id]
                     = [store[end_state_id] EXCEPT
                          !.parameters =
                            DictUpdate(@, resp'.body.measured.v)]
                /\ MeasuredKeys \subseteq DOMAIN store'[end_state_id].parameters ]_vars


\* C25: a PATCH changes only the parameters and the additional_notes of the
\* node it names: its name, timestamp, parent_id and transition_type stay, a
\* field the body does not carry stays, no node appears or disappears and
\* every other node stays as it was.
C25_PatchFrame ==
  [][ resp'.op = "update_state" =>
        /\ DOMAIN store' = DOMAIN store
        /\ \A n \in DOMAIN store : n # resp'.id => store'[n] = store[n]
        /\ resp'.id \in DOMAIN store =>
             LET old == store[resp'.id]
                 new == store'[resp'.id]
             IN /\ new.name = old.name
                /\ new.timestamp = old.timestamp
                /\ new.parent_id = old.parent_id
                /\ new.transition_type = old.transition_type
                /\ new.notes = old.notes
                /\ "parameters" \notin DOMAIN resp'.body =>
                     new.parameters = old.parameters
                /\ "additional_notes" \notin DOMAIN resp'.body =>
                     new.additional_notes = old.additional_notes ]_vars

\* A successful PATCH that carried parameters only, on a child that has
\* additional notes, beside its parent.
C25_Witness ==
  /\ resp.op = "update_state" /\ resp.status = "200"
  /\ DOMAIN resp.body = {"parameters"}
  /\ store[resp.id].parent_id \in DOMAIN store \ {resp.id}
  /\ store[resp.id].additional_notes = Str("n0")
  /\ "c" \in DOMAIN store[resp.id].parameters


\* C26: a create adds exactly one node and changes no node that was stored,
\* except that a create through the cell_states route may add measured_* keys
\* to the parameters of the new node's parent: no other key of the parent and
\* no other field or node changes.
C26_CreateFrame ==
  [][ (resp'.op \in {"create_state", "create_cell_state"}
       /\ resp'.id \notin DOMAIN store) =>
        /\ DOMAIN store' = DOMAIN store \cup {resp'.id}
        /\ \A n \in DOMAIN store :
             IF resp'.op = "create_cell_state" /\ n = resp'.body.parent_id
               THEN /\ [store'[n] EXCEPT !.parameters = EmptyDict]
                         = [store[n] EXCEPT !.parameters = EmptyDict]
                    /\ DOMAIN store[n].parameters
                         \subseteq DOMAIN store'[n].parameters
                    /\ DOMAIN store'[n].parameters
                         \subseteq DOMAIN store[n].parameters \cup MeasuredKeys
                    /\ \A k \in DOMAIN store[n].parameters \ MeasuredKeys :
                         store'[n].parameters[k] = store[n].parameters[k]
               ELSE store'[n] = store[n] ]_vars

\* A passage child was created through the cell_states route under a stored
\* parent, with everything the measured-parameter calculation asks for.
C26_Witness ==
  /\ resp.op = "create_cell_state" /\ resp.status = "201"
  /\ Exists(store, resp.id)
  /\ store[resp.id].parent_id \in DOMAIN store \ {resp.id}
  /\ WantsParentUpdate(store[resp.id])
  /\ DensitiesUsable(store[store[resp.id].parent_id], store[resp.id])
  /\ ~HasMeasured(store[store[resp.id].parent_id])
  /\ store[resp.id].timestamp > store[store[resp.id].parent_id].timestamp


\* ------------------------------------------------------------------------
\* SpecPatchRace: main.update_state in two steps, for requests that run at the
\* same time.  The handler is a plain `def`, so the framework runs each
\* request on a worker thread with a session of its own; the row a request
\* fetched (line 177) is its private copy until its commit (line 217).
\* ------------------------------------------------------------------------
RacePatchBodies ==
  { [parameters |-> Dict([x |-> Num(1)])],
    [parameters |-> Dict([y |-> Num(2)])],
    [parameters |-> Dict([x |-> Num(3)]), additional_notes |-> Str("n1")] }

\* Lines 177-214: fetch the row, build the merged parameters from what was
\* fetched, assign them to the fetched row; 404 and 400 end the request.
UpdateStateRead(r, id, update_data) ==
  LET status == UpdateStatus(store, id, update_data) IN
  /\ patch[r].phase = "idle"
  /\ patch' = [patch EXCEPT ![r] =
                 IF status = "200"
                   THEN [phase |-> "read", id |-> id, status |-> status,
                         update_data |-> update_data,
                         db_state |-> UpdatedRow(store[id], update_data)]
                   ELSE [phase |-> "done", id |-> id, status |-> status,
                         update_data |-> update_data]]
  /\ UNCHANGED <<store, resp, lq, csv, fn, legacy>>

\* The UPDATE of the flush: the columns the request assigned, each with the
\* value the request built.
FlushedRow(stored, request) ==
  LET r1 == IF "parameters" \in DOMAIN request.update_data
              THEN [stored EXCEPT !.parameters = request.db_state.parameters]
              ELSE stored
  IN IF "additional_notes" \in DOMAIN request.update_data
       THEN [r1 EXCEPT !.additional_notes = request.db_state.additional_notes]
       ELSE r1

\* Lines 216-217: session.add(db_state); session.commit().
UpdateStateCommit(r) ==
  /\ patch[r].phase = "read"
  /\ store' = Put(store, patch[r].id, FlushedRow(store[patch[r].id], patch[r]))
  /\ resp' = ReplyW("update_state", patch[r].id, patch[r].status,
                    patch[r].update_data,
                    {<<"update", patch[r].id>>}, {<<"update", patch[r].id>>})
  /\ patch' = [patch EXCEPT ![r].phase = "done"]
  /\ UNCHANGED <<lq, csv, fn, legacy>>

NextPatchRace ==
  \/ \E body \in UpdateCreateBodies : CreateState(body)
  \/ \E r \in Requests, id \in RequestIds, body \in RacePatchBodies :
       UpdateStateRead(r, id, body)
  \/ \E r \in Requests : UpdateStateCommit(r)

SpecPatchRace == Init /\ [][NextPatchRace]_vars

\* The parameters a request sent, when it was answered 200 and sent any.
SentParameters(request) ==
  IF request.phase = "done" /\ request.status = "200"
     /\ "parameters" \in DOMAIN request.update_data
    THEN request.update_data["parameters"].v
    ELSE EmptyDict

\* C27: two PATCH requests on the same node with disjoint parameter keys lose
\* no update, however they interleave: once both have committed, the stored
\* parameters hold the keys and values of both.
C27_NoLostUpdate ==
  \A r1, r2 \in Requests :
    ( /\ r1 # r2
      /\ patch[r1].phase = "done" /\ patch[r2].phase = "done"
      /\ patch[r1].status = "200" /\ patch[r2].status = "200"
      /\ patch[r1].id = patch[r2].id
      /\ DOMAIN SentParameters(patch[r1]) \cap DOMAIN SentParameters(patch[r2]) = {} ) =>
      \A k \in DOMAIN SentParameters(patch[r1]) :
        /\ k \in DOMAIN store[patch[r1].id].parameters
        /\ store[patch[r1].id].parameters[k] = SentParameters(patch[r1])[k]


\* The stored states a migration step added for an old passage.
MigratedFrom(before, after, passage) ==
  {n \in DOMAIN after \ DOMAIN before :
     DictGet(after[n].parameters, "passage_number") = Num(passage.id)}

\* The passages of an old database that is still there.
KeptPassages(l) ==
  IF "passage" \in l.tables
    THEN {l.passage[i] : i \in 1..Len(l.passage)} ELSE {}

\* C28: the old tables are dropped only after a successful migration: when
\* the conversion of a passage fails the passage table is kept, so after a run
\* of migrate_old_to_new every old passage is a migrated state or is still in
\* the old table.
C28_NoPassageLost ==
  [][ resp'.op = "migrate" =>
        /\ (\E i \in 1..Len(legacy.passage) : PassageRaises(legacy.passage[i]))
             => "passage" \in legacy'.tables
        /\ \A i \in 1..Len(legacy.passage) :
             \/ MigratedFrom(store, store', legacy.passage[i]) # {}
             \/ legacy.passage[i] \in KeptPassages(legacy') ]_vars


\* C29: the migration runs at most once: a call of migrate_old_to_new on a
\* database marked complete is skipped and writes nothing; the marker, once
\* written, stays; and it is written only by a run that finished without
\* raising, or that found no old tables.
C29_MigratesOnce ==
  [][ /\ (legacy.marker /\ resp'.op = "migrate") =>
           (resp'.status = "skipped" /\ store' = store /\ legacy' = legacy)
      /\ legacy.marker => legacy'.marker
      /\ (~legacy.marker /\ legacy'.marker) =>
           /\ resp'.op = "migrate"
           /\ resp'.status \in {"completed", "not needed"}
           /\ resp'.status = "not needed" <=> legacy.tables = {} ]_vars

\* A later startup on a store that holds migrated passages: the call is
\* skipped.
C29_Witness ==
  /\ resp.op = "migrate" /\ resp.status = "skipped"
  /\ legacy.marker
  /\ \E n \in DOMAIN store : "passage_number" \in DOMAIN store[n].parameters


\* What an export has emitted, as C30 states it.
ExportShape ==
  csv.phase # "idle" =>
    /\ Len(csv.rows) = 5 + Cardinality(DOMAIN store)
    /\ Len(csv.states) = Cardinality(DOMAIN store)
    /\ {csv.states[i] : i \in 1..Len(csv.states)} = DOMAIN store
    /\ \A i \in 1..Len(csv.rows) :
         Len(csv.rows[i]) = 7 + Cardinality(ParameterKeys)

\* C30: whatever the store holds, an export emits one data row per stored
\* state after the header, every emitted row (legend, blank, header, data) has
\* 7 columns plus one per collected parameter key, and the store is not
\* changed.
C30_ExportShape == [](ExportShape) /\ [][store' = store]_vars

====
